---- MODULE Spec2Model ----
(***************************************************************************)
(* Model of the personal-finance tracker: the dashboard balance view, the  *)
(* FX analytics view and the stock-trade view, each a page component that  *)
(* fetches one table of the backing store and derives its aggregates.      *)
(* Exactly one page is mounted at a time (the router renders one route),   *)
(* so `route` names the mounted page and the other pages' state is at its  *)
(* construction value.                                                     *)
(*                                                                         *)
(* Money amounts are integers (a fixed unit); quotients are exact          *)
(* rationals [n, d] with d > 0, compared by cross-multiplication.          *)
(***************************************************************************)
EXTENDS Integers, Sequences, FiniteSets, TLC

VARIABLES
    route,            \* the mounted page: "dashboard", "fxAnalytics", "stock"
    assetStore,       \* table pantagon_assets, in the order the query returns it
    fxStore,          \* table pantagon_usd
    stockStore,       \* table dime_transactions
    nextId,           \* next primary key the store hands out for dime_transactions
    requests,         \* store requests of the mounted page that are in flight
    loading,          \* useState loading of the mounted page
    error,            \* useState error of the mounted page (Null: none)
    fetchFailure,     \* history: the error of the last failed fetch (Null: none)
    assets,           \* Dashboard: useState assets
    totalAssetValue,  \* Dashboard: useState totalAssetValue
    accounts,         \* Dashboard: useState accounts
    data,             \* FXAnalytics, FXPage: useState data
    selectedYear,     \* FXAnalytics: useState selectedYear
    selectedCurrency, \* FXAnalytics: useState selectedCurrency
    fxSelectedYear,   \* FXPage: useState selectedYear (a number)
    selectedMonth,    \* FXPage: useState selectedMonth (0..11)
    selectedFromCurrency, \* FXPage: useState selectedFromCurrency
    selectedToCurrency,   \* FXPage: useState selectedToCurrency
    fxShowForm,       \* FXPage: useState showForm
    fxForm,           \* FXPage: useState form
    formLoading,      \* FXPage: useState formLoading
    addForm,          \* AddTransaction: useState accountName, type, amount, date, tag, note
    pathname,         \* the :accountName segment of the location, as encoded
    detailAssets,     \* AccountDetails: useState assets
    summary,          \* AccountDetails: useState summary
    transactions,     \* DimeStock: useState transactions
    showForm,         \* DimeStock: useState showForm
    form,             \* DimeStock: useState form
    saving,           \* DimeStock: useState saving
    saveError,        \* DimeStock: useState saveError
    jsonInput,        \* DimeStock: useState jsonInput (the parsed shape of the text)
    jsonError,        \* DimeStock: useState jsonError
    batchPreview,     \* DimeStock: useState batchPreview
    batchSaving,      \* DimeStock: useState batchSaving
    batchError,       \* DimeStock: useState batchError
    deleteId,         \* DimeStock: useState deleteId
    typed,            \* history: the text typed into the symbol input
    entered           \* history: raw symbols of the trades whose insert was issued

storeVars == <<assetStore, fxStore, stockStore, nextId>>
pageVars == <<route, requests, loading, error, fetchFailure>>
dashVars == <<assets, totalAssetValue, accounts>>
fxaVars == <<data, selectedYear, selectedCurrency>>
stockVars == <<transactions, showForm, form, saving, saveError, jsonInput,
               jsonError, batchPreview, batchSaving, batchError, deleteId, typed,
               entered>>
fxVars == <<fxSelectedYear, selectedMonth, selectedFromCurrency, selectedToCurrency,
            fxShowForm, fxForm, formLoading>>
acctVars == <<addForm, pathname, detailAssets, summary>>
vars == <<storeVars, pageVars, dashVars, fxaVars, stockVars, fxVars, acctVars>>

-----------------------------------------------------------------------------
(* Bounds of the model *)

MaxAssets == 3
MaxFx == 3
MaxTrades == 3
MaxInserted == 2
MaxInflight == 2
MaxNav == 1
MaxFetched == 2

-----------------------------------------------------------------------------
(* JS null / undefined: the empty tuple; a present value v is <<v>> *)

Null == <<>>
Some(v) == <<v>>
Val(o) == o[1]

(* the message of the error object a failed store call returns *)
StoreError == "store error"

RECURSIVE SumSeq(_)
SumSeq(s) == IF s = <<>> THEN 0 ELSE Head(s) + SumSeq(Tail(s))

RemoveAt(s, i) == SubSeq(s, 1, i - 1) \o SubSeq(s, i + 1, Len(s))

(* all sequences over S of length at most n *)
SeqsUpTo(S, n) == UNION {[1..k -> S] : k \in 0..n}

-----------------------------------------------------------------------------
(* Store requests: an awaited supabase call.  "sent" until the store has   *)
(* handled it, then "replied" until the page's continuation has run.       *)

Request(kind, origin, arg) ==
    [kind |-> kind, origin |-> origin, arg |-> arg,
     state |-> "sent", error |-> Null, data |-> <<>>]

Replied(i, kind) ==
    /\ i \in 1..Len(requests)
    /\ requests[i].kind = kind
    /\ requests[i].state = "replied"

-----------------------------------------------------------------------------
(* Dashboard *)

AccountNames == {"Random Bank", "Dime Invest", ""}
Amounts == {0, 50, 100}
AssetRecords == [account_name : AccountNames, type : {"IN", "OUT"}, amount : Amounts]

signedAmountPlus(item) == item.amount

signedAmount(item) == IF item.type = "IN" THEN item.amount ELSE -item.amount

accNameRaw(item) == item.account_name

accName(item) == IF item.account_name = "" THEN "Unassigned" ELSE item.account_name

(* accountMap[accName] = (accountMap[accName] || 0) + signedAmount; the map *)
(* is the sequence of its entries in insertion order (Object.keys order)   *)
AccountMapAdd(map, name, v) ==
    IF \E i \in 1..Len(map) : map[i].name = name
    THEN [i \in 1..Len(map) |->
            IF map[i].name = name
            THEN [name |-> name, balance |-> map[i].balance + v]
            ELSE map[i]]
    ELSE Append(map, [name |-> name, balance |-> v])

RECURSIVE AccountMapFrom(_, _)
AccountMapFrom(items, map) ==
    IF items = <<>> THEN map
    ELSE AccountMapFrom(Tail(items),
                        AccountMapAdd(map, accName(Head(items)), signedAmount(Head(items))))

RECURSIVE TotalFrom(_, _)
TotalFrom(items, total) ==
    IF items = <<>> THEN total
    ELSE TotalFrom(Tail(items), total + signedAmount(Head(items)))

(* Array.prototype.sort((a, b) => b.balance - a.balance): stable, so an    *)
(* entry is placed after every entry whose balance is not smaller          *)
InsertByBalance(sorted, e) ==
    LET before == {i \in 1..Len(sorted) : sorted[i].balance >= e.balance}
        k == IF before = {} THEN 0 ELSE CHOOSE i \in before : \A j \in before : j <= i
    IN SubSeq(sorted, 1, k) \o <<e>> \o SubSeq(sorted, k + 1, Len(sorted))

RECURSIVE SortFrom(_, _)
SortFrom(list, sorted) ==
    IF list = <<>> THEN sorted
    ELSE SortFrom(Tail(list), InsertByBalance(sorted, Head(list)))

Unsorted(list) == list

SortByBalanceDesc(list) == SortFrom(list, <<>>)

calculateAssetView(items) ==
    [total |-> TotalFrom(items, 0),
     accountList |-> SortByBalanceDesc(AccountMapFrom(items, <<>>))]

(* getAccountIcon: lowerName.includes(...) over the account names of the model *)
getAccountIcon(accountName) ==
    IF accountName = "Dime Invest" THEN Some("/Dime.png") ELSE Null

(* what the Dashboard component renders *)
DashboardView == IF loading THEN "loading" ELSE "content"

DashboardFetchReturn(i) ==
    /\ route = "dashboard"
    /\ Replied(i, "select")
    /\ IF requests[i].error # Null
       THEN /\ fetchFailure' = requests[i].error
            /\ UNCHANGED dashVars
       ELSE /\ assets' = requests[i].data
            /\ totalAssetValue' = calculateAssetView(requests[i].data).total
            /\ accounts' = calculateAssetView(requests[i].data).accountList
            /\ UNCHANGED fetchFailure
    /\ loading' = FALSE
    /\ requests' = RemoveAt(requests, i)
    /\ UNCHANGED <<route, error, storeVars, fxaVars, fxVars, stockVars,
                   acctVars>>

-----------------------------------------------------------------------------
(* FX analytics *)

(* transaction_at is a month count, year * 12 + month *)
getFullYear(t) == t \div 12
getMonth(t) == t % 12

YearString(y) ==
    CASE y = 2025 -> "2025"
      [] y = 2026 -> "2026"
      [] y = 2027 -> "2027"

FxRecords ==
    { [from_currency |-> "THB", to_currency |-> "USD", thb_amount |-> 70,
       foreign_amount |-> 2, transaction_at |-> 2025 * 12 + 11],
      [from_currency |-> "USD", to_currency |-> "THB", thb_amount |-> 36,
       foreign_amount |-> 1, transaction_at |-> 2025 * 12 + 0],
      [from_currency |-> "THB", to_currency |-> "EUR", thb_amount |-> 80,
       foreign_amount |-> 2, transaction_at |-> 2026 * 12 + 0],
      [from_currency |-> "THB", to_currency |-> "USD", thb_amount |-> 0,
       foreign_amount |-> 0, transaction_at |-> 2026 * 12 + 5],
      [from_currency |-> "USD", to_currency |-> "EUR", thb_amount |-> 90,
       foreign_amount |-> 3, transaction_at |-> 2026 * 12 + 0] }

availableYears(d) == {getFullYear(d[i].transaction_at) : i \in 1..Len(d)}

availableCurrencies(d) ==
    ({d[i].from_currency : i \in 1..Len(d)} \cup {d[i].to_currency : i \in 1..Len(d)})
        \ {"THB"}

FxaMatches(item, year, currency) ==
    LET matchYear == year = "All" \/ YearString(getFullYear(item.transaction_at)) = year
        matchCurrency == \/ currency = "All"
                         \/ item.from_currency = currency
                         \/ item.to_currency = currency
    IN matchYear /\ matchCurrency

(* filteredData, as the indices of data that pass: the elements of the     *)
(* filtered array are the very objects of data, which includes() compares  *)
(* by identity                                                             *)
FxaFiltered(d, year, currency) == {i \in 1..Len(d) : FxaMatches(d[i], year, currency)}

RECURSIVE SumOver(_, _, _)
SumOver(d, idx, field) ==
    IF idx = {} THEN 0
    ELSE LET i == CHOOSE j \in idx : TRUE
         IN d[i][field] + SumOver(d, idx \ {i}, field)

FxaThbVolumeAll(d, year, currency) == SumOver(d, 1..Len(d), "thb_amount")

FxaThbVolume(d, year, currency) ==
    SumOver(d, {i \in 1..Len(d) : i \in FxaFiltered(d, year, currency)}, "thb_amount")

WeightedAvgRateUnguarded(totalThbVolume, totalForeignVolume) ==
    [n |-> totalThbVolume, d |-> totalForeignVolume]

(* totalForeignVolume > 0 ? totalThbVolume / totalForeignVolume : 0 *)
WeightedAvgRate(totalThbVolume, totalForeignVolume) ==
    IF totalForeignVolume > 0
    THEN [n |-> totalThbVolume, d |-> totalForeignVolume]
    ELSE [n |-> 0, d |-> 1]

FxaAnalyticsHomeOnly(d, year, currency) ==
    LET fd == FxaFiltered(d, year, currency)
        isSelling(i) == currency # "All" /\ d[i].from_currency = currency
        isBuying(i) == currency # "All" /\ d[i].to_currency = currency
        totalThbVolume == FxaThbVolume(d, year, currency)
        totalForeignVolume == SumOver(d, fd, "foreign_amount")
    IN [totalThbIn |->
            SumOver(d, {i \in fd : d[i].to_currency = "THB"}, "thb_amount"),
        totalThbOut |->
            SumOver(d, {i \in fd : d[i].from_currency = "THB"}, "thb_amount"),
        totalForeignIn |->
            SumOver(d, {i \in fd : isBuying(i)}, "foreign_amount"),
        totalForeignOut |->
            SumOver(d, {i \in fd : isSelling(i)}, "foreign_amount"),
        avgRate |-> WeightedAvgRate(totalThbVolume, totalForeignVolume),
        count |-> Cardinality(fd)]

FxaAnalytics(d, year, currency) ==
    LET fd == FxaFiltered(d, year, currency)
        isSelling(i) == currency # "All" /\ d[i].from_currency = currency
        isBuying(i) == currency # "All" /\ d[i].to_currency = currency
        totalThbVolume == FxaThbVolume(d, year, currency)
        totalForeignVolume == SumOver(d, fd, "foreign_amount")
    IN [totalThbIn |->
            SumOver(d, {i \in fd : d[i].to_currency = "THB" \/ isSelling(i)}, "thb_amount"),
        totalThbOut |->
            SumOver(d, {i \in fd : d[i].from_currency = "THB" \/ isBuying(i)}, "thb_amount"),
        totalForeignIn |->
            SumOver(d, {i \in fd : isBuying(i)}, "foreign_amount"),
        totalForeignOut |->
            SumOver(d, {i \in fd : isSelling(i)}, "foreign_amount"),
        avgRate |-> WeightedAvgRate(totalThbVolume, totalForeignVolume),
        count |-> Cardinality(fd)]

analytics == FxaAnalytics(data, selectedYear, selectedCurrency)

FxaView == IF loading THEN "loading" ELSE IF error # Null THEN "error" ELSE "content"

FxaFetchReturn(i) ==
    /\ route = "fxAnalytics"
    /\ Replied(i, "select")
    /\ IF requests[i].error # Null
       THEN /\ error' = requests[i].error
            /\ fetchFailure' = requests[i].error
            /\ UNCHANGED data
       ELSE /\ data' = requests[i].data
            /\ UNCHANGED <<error, fetchFailure>>
    /\ loading' = FALSE
    /\ requests' = RemoveAt(requests, i)
    /\ UNCHANGED <<route, selectedYear, selectedCurrency, storeVars, dashVars, stockVars,
                   fxVars, acctVars>>

FxaSelectYear(y) ==
    /\ route = "fxAnalytics"
    /\ FxaView = "content"
    /\ y \in {"All"} \cup {YearString(x) : x \in availableYears(data)}
    /\ selectedYear' = y
    /\ UNCHANGED <<data, selectedCurrency, pageVars, storeVars, dashVars, stockVars,
                   fxVars, acctVars>>

FxaSelectCurrency(c) ==
    /\ route = "fxAnalytics"
    /\ FxaView = "content"
    /\ c \in availableCurrencies(data)
    /\ selectedCurrency' = c
    /\ UNCHANGED <<data, selectedYear, pageVars, storeVars, dashVars, stockVars,
                   fxVars, acctVars>>

-----------------------------------------------------------------------------
(* Stock trades: numbers *)

Abs(x) == IF x < 0 THEN -x ELSE x

(* exact quotients *)
Rat(n, d) == [n |-> n, d |-> d]
RatDiv(a, b) == IF b > 0 THEN Rat(a, b) ELSE Rat(-a, -b)
RatAdd(a, b) == Rat(a.n * b.d + b.n * a.d, a.d * b.d)
RatSub(a, b) == Rat(a.n * b.d - b.n * a.d, a.d * b.d)
RatScale(k, a) == Rat(k * a.n, a.d)
RatEq(a, b) == a.n * b.d = b.n * a.d
RatLess(a, b) == a.n * b.d < b.n * a.d
RatMin(a, b) == IF RatLess(a, b) THEN a ELSE b

(* x ?? 0 *)
OrZero(o) == IF o = Null THEN 0 ELSE Val(o)

(* parseFloat / Number / String over the numerals of the model *)
ParseFloat(s) ==
    CASE s = "0" -> 0
      [] s = "2" -> 2
      [] s = "5" -> 5
      [] s = "10" -> 10
      [] s = "100" -> 100
      [] s = "1000" -> 1000
      [] s = "-2" -> -2

NumberToString(x) ==
    CASE x = 0 -> "0"
      [] x = 2 -> "2"
      [] x = 5 -> "5"
      [] x = 10 -> "10"
      [] x = 100 -> "100"
      [] x = 1000 -> "1000"
      [] x = -2 -> "-2"

(* String.prototype.toUpperCase and trim over the symbols of the model *)
ToUpperCase(s) ==
    CASE s \in {"aapl", "AAPL"} -> "AAPL"
      [] s \in {" aapl", " AAPL"} -> " AAPL"
      [] s \in {"msft", "MSFT"} -> "MSFT"
      [] OTHER -> s

Trim(s) ==
    CASE s = " AAPL" -> "AAPL"
      [] s = " aapl" -> "aapl"
      [] s = " " -> ""
      [] OTHER -> s

-----------------------------------------------------------------------------
(* Stock trades: the form and the payload of a single save *)

(* FormState: every field a string, "" when empty.  transaction_date      *)
(* stands for its instant (minutes), Null when the input is empty:        *)
(* new Date(s).toISOString() denotes the same instant                     *)
Form(side, symbol, date, price, amountUsd, shares, commission) ==
    [side |-> side, symbol |-> symbol, transaction_date |-> date,
     executed_price |-> price, input_amount_usd |-> amountUsd,
     input_shares |-> shares, commission |-> commission, vat |-> "",
     fee |-> "", sec_fee |-> "", taf_fee |-> ""]

Today == 1

INITIAL_FORM == Form("BUY", "", Some(Today), "", "", "", "")

(* what the user types into the form *)
FormChoices ==
    { Form("BUY", "aapl", Some(1), "100", "1000", "", "10"),
      Form("SELL", "AAPL", Some(2), "100", "", "5", "2"),
      Form("SELL", "msft", Some(1), "10", "", "5", "-2"),
      Form("BUY", "AAPL", Some(2), "", "1000", "", "") }

(* forms that lack a required field: a blank symbol, no date, a BUY       *)
(* without its amount, a SELL without its shares                          *)
IncompleteForms ==
    { Form("BUY", " ", Some(1), "100", "1000", "", ""),
      Form("BUY", "AAPL", Null, "100", "1000", "", ""),
      Form("BUY", "AAPL", Some(1), "100", "", "5", ""),
      Form("SELL", "AAPL", Some(1), "100", "1000", "", "") }

FormFee(s) == IF s # "" THEN Some(ParseFloat(s)) ELSE Null

FormSymbol(f) == Trim(ToUpperCase(f.symbol))

SaveValidationNoSymbol(f) ==
    IF f.executed_price = "" \/ f.transaction_date = Null
    THEN Some("Symbol, date, and executed price are required.")
    ELSE IF f.side = "BUY" /\ f.input_amount_usd = ""
    THEN Some("Input Amount (USD) is required for BUY.")
    ELSE IF f.side = "SELL" /\ f.input_shares = ""
    THEN Some("Shares are required for SELL.")
    ELSE Null

(* handleSave, lines 203-214: the message of the validation that fails *)
SaveValidation(f) ==
    IF Trim(f.symbol) = "" \/ f.executed_price = "" \/ f.transaction_date = Null
    THEN Some("Symbol, date, and executed price are required.")
    ELSE IF f.side = "BUY" /\ f.input_amount_usd = ""
    THEN Some("Input Amount (USD) is required for BUY.")
    ELSE IF f.side = "SELL" /\ f.input_shares = ""
    THEN Some("Shares are required for SELL.")
    ELSE Null

FeeSum(commission, vat, fee, sec_fee, taf_fee) ==
    OrZero(commission) + OrZero(vat) + OrZero(fee) + OrZero(sec_fee) + OrZero(taf_fee)

BuySharesNoFees(amountUsd, totalFees, execPrice) == RatDiv(amountUsd, execPrice)

(* shares = stockAmt / execPrice with stockAmt = input_amount_usd - totalFees *)
BuyShares(amountUsd, totalFees, execPrice) == RatDiv(amountUsd - totalFees, execPrice)

SellTotalGross(inputShares, totalFees, execPrice) == inputShares * execPrice

(* total_amount = stockAmount - totalFees with stockAmount = input_shares * execPrice *)
SellTotal(inputShares, totalFees, execPrice) == inputShares * execPrice - totalFees

InputSharesUnguarded(side, input_shares) == input_shares

(* input_shares: side === 'SELL' ? input_shares : null (lines 257, 335) *)
InputSharesField(side, input_shares) == IF side = "SELL" THEN input_shares ELSE Null

(* handleSave, lines 216-263 *)
SavePayload(f) ==
    LET execPrice == ParseFloat(f.executed_price)
        commission == FormFee(f.commission)
        vat == FormFee(f.vat)
        fee == FormFee(f.fee)
        sec_fee == FormFee(f.sec_fee)
        taf_fee == FormFee(f.taf_fee)
        totalFees == FeeSum(commission, vat, fee, sec_fee, taf_fee)
        isBuy == f.side = "BUY"
        input_amount_usd == IF isBuy THEN Some(ParseFloat(f.input_amount_usd)) ELSE Null
        input_shares == IF isBuy THEN Null ELSE Some(ParseFloat(f.input_shares))
        shares == IF isBuy
                  THEN BuyShares(Val(input_amount_usd), totalFees, execPrice)
                  ELSE Rat(Val(input_shares), 1)
    IN [side |-> f.side,
        transaction_date |-> Val(f.transaction_date),
        symbol |-> FormSymbol(f),
        shares |-> shares,
        total_amount |-> IF isBuy THEN Val(input_amount_usd)
                         ELSE SellTotal(Val(input_shares), totalFees, execPrice),
        executed_price |-> execPrice,
        commission |-> commission,
        vat |-> vat,
        fee |-> fee,
        sec_fee |-> sec_fee,
        taf_fee |-> taf_fee,
        input_amount_usd |-> IF f.side = "BUY" THEN input_amount_usd ELSE Null,
        input_shares |-> InputSharesField(f.side, input_shares),
        stock_amount |-> IF f.side = "BUY"
                         THEN Val(input_amount_usd) - totalFees
                         ELSE Val(input_shares) * execPrice,
        currency |-> "USD"]

-----------------------------------------------------------------------------
(* Stock trades: structured-text import *)

(* one object of the pasted JSON; an absent or null member is Null, an    *)
(* absent string member ""                                                 *)
Item(side, symbol, date, price, amountUsd, shares, commission, fee) ==
    [side |-> side, symbol |-> symbol, transaction_date |-> date,
     executed_price |-> price, input_amount_usd |-> amountUsd,
     input_shares |-> shares, commission |-> commission, vat |-> Null,
     fee |-> fee, sec_fee |-> Null, taf_fee |-> Null]

ItemBuy == Item("BUY", " aapl", Some(1), Some(100), Some(1000), Null, Some(-10), Some(0))
ItemSell == Item("SELL", "AAPL", Some(2), Some(100), Null, Some(5), Some(2), Null)
ItemNoPrice == Item("BUY", "AAPL", Some(2), Null, Some(1000), Null, Null, Null)
ItemInit == Item("INIT", "MSFT", Some(1), Some(10), Null, Some(5), Null, Null)

(* the text pasted into the JSON panel, by what the two regular           *)
(* expressions and JSON.parse make of it                                  *)
JsonArray(items) == [kind |-> "array", value |-> items]
JsonObject(item) == [kind |-> "object", value |-> <<item>>]
JsonText == [kind |-> "text", value |-> <<>>]
JsonEmpty == [kind |-> "empty", value |-> <<>>]

JsonChoices ==
    { JsonArray(<<ItemBuy, ItemSell>>),
      JsonArray(<<ItemBuy, ItemNoPrice>>),
      JsonArray(<<ItemInit, ItemSell>>),
      JsonObject(ItemSell),
      JsonText }

(* the items and texts pasted when the import alone is exercised *)
ItemBuyNoAmount == Item("BUY", "AAPL", Some(1), Some(100), Null, Some(5), Null, Null)
ItemSellNoShares == Item("SELL", "AAPL", Some(2), Some(100), Some(1000), Null, Some(-2), Null)

ImportChoices ==
    {JsonArray(<<ItemBuy, ItemSell>>), JsonArray(<<ItemSell, ItemBuy>>),
     JsonArray(<<ItemBuy, ItemSellNoShares>>), JsonArray(<<ItemSell, ItemBuyNoAmount>>),
     JsonArray(<<ItemBuyNoAmount, ItemNoPrice>>), JsonArray(<<ItemNoPrice, ItemSellNoShares>>),
     JsonArray(<<ItemSellNoShares>>), JsonArray(<<>>),
     JsonObject(ItemBuy), JsonObject(ItemSell), JsonText}

ItemFeeSigned(o) == o

(* p.x != null ? Math.abs(Number(p.x)) : null *)
ItemFee(o) == IF o # Null THEN Some(Abs(Val(o))) ELSE Null

ZeroToNull(o) == IF o = Some(0) THEN Null ELSE o

ItemSymbolRaw(p) == Trim(p.symbol)

ItemSymbol(p) == Trim(ToUpperCase(p.symbol))

(* buildPayload, lines 294-339 *)
buildPayload(p) ==
    LET execPrice == Val(p.executed_price)
        commission == ItemFee(p.commission)
        vat == ItemFee(p.vat)
        fee == ItemFee(p.fee)
        sec_fee == ItemFee(p.sec_fee)
        taf_fee == ItemFee(p.taf_fee)
        totalFees == FeeSum(commission, vat, fee, sec_fee, taf_fee)
        isBuy == p.side = "BUY"
        input_amount_usd == IF isBuy THEN p.input_amount_usd ELSE Null
        input_shares == IF isBuy THEN Null ELSE p.input_shares
        stock_amount == IF isBuy
                        THEN Val(input_amount_usd) - totalFees
                        ELSE Val(input_shares) * execPrice
    IN [side |-> p.side,
        transaction_date |-> Val(p.transaction_date),
        symbol |-> ItemSymbol(p),
        shares |-> IF isBuy
                   THEN BuyShares(Val(input_amount_usd), totalFees, execPrice)
                   ELSE Rat(Val(input_shares), 1),
        total_amount |-> IF isBuy THEN Val(input_amount_usd)
                         ELSE SellTotal(Val(input_shares), totalFees, execPrice),
        executed_price |-> execPrice,
        commission |-> commission,
        vat |-> vat,
        fee |-> ZeroToNull(fee),
        sec_fee |-> ZeroToNull(sec_fee),
        taf_fee |-> ZeroToNull(taf_fee),
        input_amount_usd |-> IF p.side = "BUY" THEN input_amount_usd ELSE Null,
        input_shares |-> InputSharesField(p.side, input_shares),
        stock_amount |-> stock_amount,
        currency |-> "USD"]

ItemValidationNoSell(item, i) ==
    IF \/ item.side = "" \/ item.symbol = ""
       \/ item.executed_price \in {Null, Some(0)}
       \/ item.transaction_date = Null
    THEN Some(<<"Item", i, "missing required fields (side, symbol, executed_price, transaction_date)">>)
    ELSE IF item.side = "BUY" /\ item.input_amount_usd = Null
    THEN Some(<<"Item", i, "BUY requires input_amount_usd">>)
    ELSE Null

(* applyJson, lines 361-368: the message for item i, Null when it passes *)
ItemValidation(item, i) ==
    IF \/ item.side = "" \/ item.symbol = ""
       \/ item.executed_price \in {Null, Some(0)}
       \/ item.transaction_date = Null
    THEN Some(<<"Item", i, "missing required fields (side, symbol, executed_price, transaction_date)">>)
    ELSE IF item.side = "BUY" /\ item.input_amount_usd = Null
    THEN Some(<<"Item", i, "BUY requires input_amount_usd">>)
    ELSE IF item.side = "SELL" /\ item.input_shares = Null
    THEN Some(<<"Item", i, "SELL requires input_shares">>)
    ELSE Null

NoValidation(arr) == Null

(* arr.forEach(...) throws at the first item that fails *)
ArrayValidation(arr) ==
    LET bad == {i \in 1..Len(arr) : ItemValidation(arr[i], i) # Null}
    IN IF bad = {} THEN Null
       ELSE ItemValidation(arr[CHOOSE i \in bad : \A j \in bad : i <= j],
                           CHOOSE i \in bad : \A j \in bad : i <= j)

(* applyJson, lines 374-390: the form a single object fills in *)
FormFromObject(f, parsed) ==
    LET num(o, old) == IF o # Null THEN NumberToString(Abs(Val(o))) ELSE old
        raw(o, old) == IF o # Null THEN NumberToString(Val(o)) ELSE old
    IN [side |-> IF parsed.side \in {"BUY", "SELL"} THEN parsed.side ELSE f.side,
        symbol |-> IF parsed.symbol # "" THEN Trim(ToUpperCase(parsed.symbol)) ELSE f.symbol,
        transaction_date |-> IF parsed.transaction_date # Null
                             THEN parsed.transaction_date ELSE f.transaction_date,
        executed_price |-> num(parsed.executed_price, f.executed_price),
        input_amount_usd |-> raw(parsed.input_amount_usd, f.input_amount_usd),
        input_shares |-> raw(parsed.input_shares, f.input_shares),
        commission |-> num(parsed.commission, f.commission),
        vat |-> num(parsed.vat, f.vat),
        fee |-> num(parsed.fee, f.fee),
        sec_fee |-> num(parsed.sec_fee, f.sec_fee),
        taf_fee |-> num(parsed.taf_fee, f.taf_fee)]

-----------------------------------------------------------------------------
(* Stock trades: the per-symbol summary *)

NewSummary(sym, tx) ==
    [symbol |-> sym, totalBuyAmount |-> 0, totalSellAmount |-> 0,
     totalShares |-> Rat(0, 1), avgBuyPrice |-> Rat(0, 1), txCount |-> 0,
     latestDate |-> tx.transaction_date, totalStockAmount |-> 0]

(* tx.symbol || 'UNKNOWN' *)
SymbolKey(tx) == IF tx.symbol = "" THEN "UNKNOWN" ELSE tx.symbol

AccumulateInitByTotal(s, tx) ==
    LET c == [s EXCEPT !.txCount = @ + 1,
                       !.latestDate = IF tx.transaction_date > @
                                      THEN tx.transaction_date ELSE @]
    IN IF tx.side \in {"BUY", "INIT"}
       THEN [c EXCEPT !.totalBuyAmount = @ + tx.total_amount,
                      !.totalShares = RatAdd(@, tx.shares),
                      !.totalStockAmount = @ + tx.stock_amount]
       ELSE [c EXCEPT !.totalSellAmount = @ + tx.total_amount,
                      !.totalShares = RatSub(@, tx.shares),
                      !.totalStockAmount = @ - tx.stock_amount]

Accumulate(s, tx) ==
    LET c == [s EXCEPT !.txCount = @ + 1,
                       !.latestDate = IF tx.transaction_date > @
                                      THEN tx.transaction_date ELSE @]
    IN CASE tx.side = "BUY" ->
              [c EXCEPT !.totalBuyAmount = @ + tx.total_amount,
                        !.totalShares = RatAdd(@, tx.shares),
                        !.totalStockAmount = @ + tx.stock_amount]
         [] tx.side = "INIT" ->
              [c EXCEPT !.totalBuyAmount = @ + tx.stock_amount,
                        !.totalShares = RatAdd(@, tx.shares),
                        !.totalStockAmount = @ + tx.stock_amount]
         [] OTHER ->
              [c EXCEPT !.totalSellAmount = @ + tx.total_amount,
                        !.totalShares = RatSub(@, tx.shares),
                        !.totalStockAmount = @ - tx.stock_amount]

SummaryMapAdd(map, tx) ==
    LET sym == SymbolKey(tx)
        m == IF \E i \in 1..Len(map) : map[i].symbol = sym
             THEN map ELSE Append(map, NewSummary(sym, tx))
    IN [i \in 1..Len(m) |-> IF m[i].symbol = sym THEN Accumulate(m[i], tx) ELSE m[i]]

RECURSIVE SummaryMapFrom(_, _)
SummaryMapFrom(txs, map) ==
    IF txs = <<>> THEN map
    ELSE SummaryMapFrom(Tail(txs), SummaryMapAdd(map, Head(txs)))

(* lines 172-177: buys are matched on t.symbol === s.symbol *)
WithAvgBuyPrice(s, txs) ==
    LET buys == {i \in 1..Len(txs) :
                    txs[i].symbol = s.symbol /\ txs[i].side \in {"BUY", "INIT"}}
    IN IF buys = {} THEN s
       ELSE [s EXCEPT !.avgBuyPrice =
                Rat(SumOver(txs, buys, "executed_price"), Cardinality(buys))]

(* sort((a, b) => b.totalStockAmount - a.totalStockAmount), stable *)
InsertByStockAmount(sorted, e) ==
    LET before == {i \in 1..Len(sorted) : sorted[i].totalStockAmount >= e.totalStockAmount}
        k == IF before = {} THEN 0 ELSE CHOOSE i \in before : \A j \in before : j <= i
    IN SubSeq(sorted, 1, k) \o <<e>> \o SubSeq(sorted, k + 1, Len(sorted))

RECURSIVE SortSummaries(_, _)
SortSummaries(list, sorted) ==
    IF list = <<>> THEN sorted
    ELSE SortSummaries(Tail(list), InsertByStockAmount(sorted, Head(list)))

symbolSummariesOf(txs) ==
    LET map == SummaryMapFrom(txs, <<>>)
    IN SortSummaries([i \in 1..Len(map) |-> WithAvgBuyPrice(map[i], txs)], <<>>)

symbolSummaries == symbolSummariesOf(transactions)

overallBuyOf(txs) ==
    SumOver(txs, {i \in 1..Len(txs) : txs[i].side = "INIT"}, "stock_amount")
      + SumOver(txs, {i \in 1..Len(txs) : txs[i].side = "BUY"}, "total_amount")

overallSellOf(txs) ==
    SumOver(txs, {i \in 1..Len(txs) : txs[i].side = "SELL"}, "total_amount")

(* Math.min(sellRatio, 1) with sellRatio as on line 194 *)
SellRatio(s) ==
    RatMin(IF RatLess(s.totalShares, Rat(0, 1)) THEN Rat(1, 1)
           ELSE RatDiv(Abs(s.totalSellAmount),
                       IF s.totalBuyAmount = 0 THEN 1 ELSE s.totalBuyAmount),
           Rat(1, 1))

(* one step of the reduce of netPL *)
NetPLStep(total, s) ==
    IF s.totalSellAmount = 0 THEN total
    ELSE RatSub(RatAdd(total, Rat(s.totalSellAmount, 1)),
                RatScale(s.totalBuyAmount, SellRatio(s)))

RECURSIVE NetPLFrom(_, _)
NetPLFrom(summaries, total) ==
    IF summaries = <<>> THEN total
    ELSE NetPLFrom(Tail(summaries), NetPLStep(total, Head(summaries)))

netPLOf(txs) == NetPLFrom(symbolSummariesOf(txs), Rat(0, 1))

netPL == netPLOf(transactions)

(* the P&L of a symbol in the symbol list and in the symbol detail view *)
realized(s) ==
    IF s.totalSellAmount > 0 THEN s.totalSellAmount - s.totalBuyAmount ELSE 0

-----------------------------------------------------------------------------
(* Stock trades: the page *)

StockView == IF loading THEN "loading" ELSE IF error # Null THEN "error" ELSE "content"

StockInteractive == route = "stock" /\ StockView = "content"

Ids(txs) == {txs[i].id : i \in 1..Len(txs)}

(* inserts that are on their way to the store *)
PendingRows ==
    SumSeq([i \in 1..Len(requests) |->
              IF requests[i].kind = "insert" /\ requests[i].state = "sent"
              THEN Len(requests[i].arg) ELSE 0])

CanIssue(rows) ==
    /\ Len(requests) < MaxInflight
    /\ (nextId - 1) + PendingRows + rows <= MaxInserted

(* fetchTransactions up to its await, called by the continuation of request i *)
StartFetch(i, origin) ==
    /\ loading' = TRUE
    /\ requests' = Append(RemoveAt(requests, i), Request("select", origin, Null))

ToggleForm ==
    /\ StockInteractive
    /\ showForm' = ~showForm
    /\ saveError' = Null
    /\ UNCHANGED <<transactions, form, typed, saving, jsonInput, jsonError, batchPreview,
                   batchSaving, batchError, deleteId, entered>>
    /\ UNCHANGED <<pageVars, storeVars, dashVars, fxaVars, fxVars, acctVars>>

(* typing into the form; the symbol input upper-cases on change (line 635) *)
EditForm(choice) ==
    /\ StockInteractive
    /\ showForm
    /\ form' = [choice EXCEPT !.symbol = ToUpperCase(@)]
    /\ typed' = choice.symbol
    /\ UNCHANGED <<transactions, showForm, saving, saveError, jsonInput, jsonError,
                   batchPreview, batchSaving, batchError, deleteId, entered>>
    /\ UNCHANGED <<pageVars, storeVars, dashVars, fxaVars, fxVars, acctVars>>

HandleSaveWhileSaving ==
    /\ StockInteractive
    /\ showForm
    /\ IF SaveValidation(form) # Null
       THEN /\ saveError' = SaveValidation(form)
            /\ UNCHANGED <<saving, requests, entered>>
       ELSE /\ CanIssue(1)
            /\ saveError' = Null
            /\ saving' = TRUE
            /\ requests' = Append(requests, Request("insert", "save", <<SavePayload(form)>>))
            /\ entered' = entered \cup {typed}
    /\ UNCHANGED <<transactions, showForm, form, typed, jsonInput, jsonError,
                   batchPreview, batchSaving, batchError, deleteId>>
    /\ UNCHANGED <<route, loading, error, fetchFailure, storeVars, dashVars, fxaVars, fxVars,
                   acctVars>>

(* handleSave up to its await *)
HandleSave ==
    /\ StockInteractive
    /\ showForm
    /\ ~saving
    /\ IF SaveValidation(form) # Null
       THEN /\ saveError' = SaveValidation(form)
            /\ UNCHANGED <<saving, requests, entered>>
       ELSE /\ CanIssue(1)
            /\ saveError' = Null
            /\ saving' = TRUE
            /\ requests' = Append(requests, Request("insert", "save", <<SavePayload(form)>>))
            /\ entered' = entered \cup {typed}
    /\ UNCHANGED <<transactions, showForm, form, typed, jsonInput, jsonError,
                   batchPreview, batchSaving, batchError, deleteId>>
    /\ UNCHANGED <<route, loading, error, fetchFailure, storeVars, dashVars, fxaVars, fxVars,
                   acctVars>>

(* handleSave after its insert *)
SaveReturn(i) ==
    /\ route = "stock"
    /\ Replied(i, "insert")
    /\ requests[i].origin = "save"
    /\ IF requests[i].error # Null
       THEN /\ saveError' = requests[i].error
            /\ saving' = FALSE
            /\ requests' = RemoveAt(requests, i)
            /\ UNCHANGED <<showForm, form, typed, loading>>
       ELSE /\ showForm' = FALSE
            /\ form' = INITIAL_FORM
            /\ typed' = ""
            /\ StartFetch(i, "save")
            /\ UNCHANGED <<saveError, saving>>
    /\ UNCHANGED <<transactions, jsonInput, jsonError, batchPreview, batchSaving,
                   batchError, deleteId, entered>>
    /\ UNCHANGED <<route, error, fetchFailure, storeVars, dashVars, fxaVars, fxVars,
                   acctVars>>

StockFetchReturnNoFinally(i) ==
    /\ route = "stock"
    /\ Replied(i, "select")
    /\ IF requests[i].error # Null
       THEN /\ error' = requests[i].error
            /\ fetchFailure' = requests[i].error
            /\ UNCHANGED transactions
       ELSE /\ transactions' = requests[i].data
            /\ UNCHANGED <<error, fetchFailure>>
    /\ loading' = IF requests[i].error # Null THEN loading ELSE FALSE
    /\ saving' = IF requests[i].origin = "save" THEN FALSE ELSE saving
    /\ batchSaving' = IF requests[i].origin = "batch" THEN FALSE ELSE batchSaving
    /\ requests' = RemoveAt(requests, i)
    /\ UNCHANGED <<showForm, form, typed, saveError, jsonInput, jsonError, batchPreview,
                   batchError, deleteId, entered>>
    /\ UNCHANGED <<route, storeVars, dashVars, fxaVars, fxVars, acctVars>>

(* fetchTransactions after its await, and the finally of the handler that awaited it *)
StockFetchReturn(i) ==
    /\ route = "stock"
    /\ Replied(i, "select")
    /\ IF requests[i].error # Null
       THEN /\ error' = requests[i].error
            /\ fetchFailure' = requests[i].error
            /\ UNCHANGED transactions
       ELSE /\ transactions' = requests[i].data
            /\ UNCHANGED <<error, fetchFailure>>
    /\ loading' = FALSE
    /\ saving' = IF requests[i].origin = "save" THEN FALSE ELSE saving
    /\ batchSaving' = IF requests[i].origin = "batch" THEN FALSE ELSE batchSaving
    /\ requests' = RemoveAt(requests, i)
    /\ UNCHANGED <<showForm, form, typed, saveError, jsonInput, jsonError, batchPreview,
                   batchError, deleteId, entered>>
    /\ UNCHANGED <<route, storeVars, dashVars, fxaVars, fxVars, acctVars>>

(* typing into the JSON text area (line 549) *)
EditJson(choice) ==
    /\ StockInteractive
    /\ showForm
    /\ jsonInput' = choice
    /\ jsonError' = Null
    /\ batchPreview' = Null
    /\ UNCHANGED <<transactions, showForm, form, typed, saving, saveError, batchSaving,
                   batchError, deleteId, entered>>
    /\ UNCHANGED <<pageVars, storeVars, dashVars, fxaVars, fxVars, acctVars>>

(* applyJson; its button is rendered while there is no preview and is      *)
(* disabled while the text is blank                                        *)
ApplyJson ==
    /\ StockInteractive
    /\ showForm
    /\ batchPreview = Null
    /\ jsonInput.kind # "empty"
    /\ batchError' = Null
    /\ CASE jsonInput.kind = "array" ->
              /\ jsonError' = IF Len(jsonInput.value) = 0 THEN Some("Empty array")
                              ELSE ArrayValidation(jsonInput.value)
              /\ batchPreview' = IF Len(jsonInput.value) = 0
                                    \/ ArrayValidation(jsonInput.value) # Null
                                 THEN Null ELSE Some(jsonInput.value)
              /\ UNCHANGED <<form, typed, jsonInput>>
         [] jsonInput.kind = "object" ->
              /\ form' = FormFromObject(form, jsonInput.value[1])
              /\ typed' = IF jsonInput.value[1].symbol # ""
                          THEN jsonInput.value[1].symbol ELSE typed
              /\ jsonInput' = JsonEmpty
              /\ jsonError' = Null
              /\ batchPreview' = Null
         [] OTHER ->
              /\ jsonError' = Some("No JSON found")
              /\ batchPreview' = Null
              /\ UNCHANGED <<form, typed, jsonInput>>
    /\ UNCHANGED <<transactions, showForm, saving, saveError, batchSaving,
                   deleteId, entered>>
    /\ UNCHANGED <<pageVars, storeVars, dashVars, fxaVars, fxVars, acctVars>>

CancelBatch ==
    /\ StockInteractive
    /\ showForm
    /\ batchPreview # Null
    /\ batchPreview' = Null
    /\ UNCHANGED <<transactions, showForm, form, typed, saving, saveError, jsonInput,
                   jsonError, batchSaving, batchError, deleteId, entered>>
    /\ UNCHANGED <<pageVars, storeVars, dashVars, fxaVars, fxVars, acctVars>>

MapPayload(arr) == [i \in 1..Len(arr) |-> buildPayload(arr[i])]

(* one trade given to the form and to the import: the side and what is   *)
(* entered as fee; the form holds the text, the pasted array the number   *)
PayloadInputs == [side : {"BUY", "SELL"}, fee : {"", "0", "2"}]

PayloadForm(in) ==
    [Form(in.side, "AAPL", Some(1), "100",
          IF in.side = "BUY" THEN "1000" ELSE "",
          IF in.side = "SELL" THEN "5" ELSE "", "2")
       EXCEPT !.fee = in.fee]

PayloadItem(in) ==
    Item(in.side, "AAPL", Some(1), Some(100),
         IF in.side = "BUY" THEN Some(1000) ELSE Null,
         IF in.side = "SELL" THEN Some(5) ELSE Null, Some(2),
         IF in.fee = "" THEN Null ELSE Some(ParseFloat(in.fee)))

(* handleBatchSave up to its await *)
HandleBatchSave ==
    /\ StockInteractive
    /\ showForm
    /\ batchPreview # Null
    /\ ~batchSaving
    /\ CanIssue(Len(Val(batchPreview)))
    /\ batchError' = Null
    /\ batchSaving' = TRUE
    /\ requests' = Append(requests, Request("insert", "batch", MapPayload(Val(batchPreview))))
    /\ entered' = entered \cup {Val(batchPreview)[i].symbol : i \in 1..Len(Val(batchPreview))}
    /\ UNCHANGED <<transactions, showForm, form, typed, saving, saveError, jsonInput,
                   jsonError, batchPreview, deleteId>>
    /\ UNCHANGED <<route, loading, error, fetchFailure, storeVars, dashVars, fxaVars, fxVars,
                   acctVars>>

(* handleBatchSave after its insert *)
BatchReturn(i) ==
    /\ route = "stock"
    /\ Replied(i, "insert")
    /\ requests[i].origin = "batch"
    /\ IF requests[i].error # Null
       THEN /\ batchError' = requests[i].error
            /\ batchSaving' = FALSE
            /\ requests' = RemoveAt(requests, i)
            /\ UNCHANGED <<batchPreview, jsonInput, loading>>
       ELSE /\ batchPreview' = Null
            /\ jsonInput' = JsonEmpty
            /\ StartFetch(i, "batch")
            /\ UNCHANGED <<batchError, batchSaving>>
    /\ UNCHANGED <<transactions, showForm, form, typed, saving, saveError, jsonError,
                   deleteId, entered>>
    /\ UNCHANGED <<route, error, fetchFailure, storeVars, dashVars, fxaVars, fxVars,
                   acctVars>>

(* the trash button of a listed trade (lines 788, 934) *)
AskDelete(id) ==
    /\ StockInteractive
    /\ id \in Ids(transactions)
    /\ deleteId' = Some(id)
    /\ UNCHANGED <<transactions, showForm, form, typed, saving, saveError, jsonInput,
                   jsonError, batchPreview, batchSaving, batchError, entered>>
    /\ UNCHANGED <<pageVars, storeVars, dashVars, fxaVars, fxVars, acctVars>>

CancelDelete ==
    /\ StockInteractive
    /\ deleteId # Null
    /\ Val(deleteId) \in Ids(transactions)
    /\ deleteId' = Null
    /\ UNCHANGED <<transactions, showForm, form, typed, saving, saveError, jsonInput,
                   jsonError, batchPreview, batchSaving, batchError, entered>>
    /\ UNCHANGED <<pageVars, storeVars, dashVars, fxaVars, fxVars, acctVars>>

(* handleDelete up to its await; Confirm is rendered for the listed trade  *)
(* whose id is deleteId                                                    *)
HandleDelete ==
    /\ StockInteractive
    /\ deleteId # Null
    /\ Val(deleteId) \in Ids(transactions)
    /\ Len(requests) < MaxInflight
    /\ requests' = Append(requests, Request("delete", "delete", deleteId))
    /\ UNCHANGED <<route, loading, error, fetchFailure>>
    /\ UNCHANGED <<storeVars, dashVars, fxaVars, fxVars, stockVars,
                   acctVars>>

(* handleDelete after its delete: an alert, or the refetch; the call       *)
(* handleDelete(id) that awaits the refetch keeps its id                   *)
DeleteReturn(i) ==
    /\ route = "stock"
    /\ Replied(i, "delete")
    /\ IF requests[i].error # Null
       THEN /\ requests' = RemoveAt(requests, i)
            /\ UNCHANGED <<deleteId, loading>>
       ELSE /\ deleteId' = Null
            /\ loading' = TRUE
            /\ requests' = Append(RemoveAt(requests, i),
                                  Request("select", "delete", requests[i].arg))
    /\ UNCHANGED <<transactions, showForm, form, typed, saving, saveError, jsonInput,
                   jsonError, batchPreview, batchSaving, batchError, entered>>
    /\ UNCHANGED <<route, error, fetchFailure, storeVars, dashVars, fxaVars, fxVars,
                   acctVars>>

-----------------------------------------------------------------------------
(* FX transactions page (FXPage) *)

(* new Date(): the month the page is opened in *)
Now == 2026 * 12 + 10

(* rows of pantagon_usd as the FX page lists them *)
FxRow(from, to, thb, foreign, rate, at) ==
    [from_currency |-> from, to_currency |-> to, thb_amount |-> thb,
     foreign_amount |-> foreign, exchange_rate |-> rate, transaction_at |-> at]

FxPageRecords ==
    { FxRow("THB", "USD", 70, 2, Rat(35, 1), 2026 * 12 + 5),
      FxRow("THB", "EUR", 80, 2, Rat(40, 1), 2026 * 12 + 5),
      FxRow("USD", "THB", 36, 1, Rat(36, 1), 2026 * 12 + 5),
      FxRow("THB", "USD", 72, 2, Rat(36, 1), 2025 * 12 + 11),
      FxRow("THB", "THB", 10, 10, Rat(1, 1), 2026 * 12 + 5) }

(* Number(s) over the numerals of the FX form; Number('') is 0 *)
Number(s) ==
    CASE s = "" -> 0
      [] s = "0" -> 0
      [] s = "2" -> 2
      [] s = "36" -> 36
      [] s = "70" -> 70
      [] s = "-2" -> -2
      [] s = "-70" -> -70

FxForm(at, from, to, thb, foreign, rate) ==
    [transaction_at |-> at, from_currency |-> from, to_currency |-> to,
     thb_amount |-> thb, foreign_amount |-> foreign, exchange_rate |-> rate]

FxInitialForm == FxForm(Now, "", "USD", "", "", "")

(* the form after a successful save, lines 215-222 *)
FxResetForm == FxForm(Now, "THB", "USD", "", "", "")

(* what is typed into the form: the selects offer USD, FCD and SAVE, the   *)
(* number inputs carry no min                                              *)
FxFormChoices ==
    {FxForm(Now, "USD", "FCD", "70", "2", ""),
     FxForm(Now, "USD", "FCD", "70", "2", "36"),
     FxForm(Now, "USD", "FCD", "70", "2", "0"),
     FxForm(Now, "USD", "FCD", "70", "0", ""),
     FxForm(Now, "USD", "FCD", "-70", "-2", ""),
     FxForm(Now, "FCD", "", "70", "2", ""),
     FxForm(Now - 1, "FCD", "USD", "70", "", "36")}

FinalRateSupplied(f) == Rat(Number(f.exchange_rate), 1)

(* handleSave, lines 195-202: the rate that is stored *)
FinalRate(f) ==
    LET finalRate == Number(f.exchange_rate)
        foreign == Number(f.foreign_amount)
        thb == Number(f.thb_amount)
    IN IF finalRate = 0 /\ foreign > 0 /\ thb > 0
       THEN Rat(thb, foreign)
       ELSE Rat(finalRate, 1)

(* the row handed to insert, lines 204-211 *)
FxPayload(f) ==
    FxRow(f.from_currency, f.to_currency, Number(f.thb_amount),
          Number(f.foreign_amount), FinalRate(f), f.transaction_at)

(* the inputs marked required (lines 324-401) hold a value *)
FxFormComplete(f) ==
    /\ f.from_currency # ""
    /\ f.to_currency # ""
    /\ f.thb_amount # ""
    /\ f.foreign_amount # ""

FxMatchesEitherCurrency(item, year, month, from, to) ==
    LET matchYear == getFullYear(item.transaction_at) = year
        matchMonth == getMonth(item.transaction_at) = month
        matchFrom == from = "All" \/ item.from_currency = from
        matchTo == to = "All" \/ item.to_currency = to
    IN matchYear /\ matchMonth /\ (matchFrom \/ matchTo)

(* filteredData's predicate, lines 248-254 *)
FxMatches(item, year, month, from, to) ==
    LET matchYear == getFullYear(item.transaction_at) = year
        matchMonth == getMonth(item.transaction_at) = month
        matchFrom == from = "All" \/ item.from_currency = from
        matchTo == to = "All" \/ item.to_currency = to
    IN matchYear /\ matchMonth /\ matchFrom /\ matchTo

(* filteredData, as the indices of data that pass *)
FxFiltered(d, year, month, from, to) ==
    {i \in 1..Len(d) : FxMatches(d[i], year, month, from, to)}

(* analytics of the list view (part_001, lines 81-106): the THB totals and *)
(* the arithmetic mean of the rates of the filtered records                *)
FxListAnalytics(d, year, month, from, to) ==
    LET fd == FxFiltered(d, year, month, from, to)
        RECURSIVE RateSum(_)
        RateSum(idx) ==
            IF idx = {} THEN Rat(0, 1)
            ELSE LET i == CHOOSE j \in idx : TRUE
                 IN RatAdd(d[i].exchange_rate, RateSum(idx \ {i}))
        count == Cardinality(fd)
    IN [totalThbIn |->
            SumOver(d, {i \in fd : d[i].to_currency = "THB"}, "thb_amount"),
        totalThbOut |->
            SumOver(d, {i \in fd : d[i].to_currency # "THB" /\ d[i].from_currency = "THB"},
                    "thb_amount"),
        avgRate |-> IF count > 0
                    THEN Rat(RateSum(fd).n, RateSum(fd).d * count)
                    ELSE Rat(0, 1),
        count |-> count]

latestDateOfLast(d) == d[Len(d)].transaction_at

(* new Date(data[0].transaction_at), line 177 *)
latestDate(d) == d[1].transaction_at

(* the page is past its loading and error returns, lines 276-277 *)
FxInteractive == route = "fx" /\ ~loading /\ error = Null

(* fetchData after its await, lines 170-186 *)
FxFetchReturn(i) ==
    /\ route = "fx"
    /\ Replied(i, "select")
    /\ IF requests[i].error # Null
       THEN /\ error' = requests[i].error
            /\ fetchFailure' = requests[i].error
            /\ UNCHANGED <<data, fxSelectedYear, selectedMonth>>
       ELSE /\ data' = requests[i].data
            /\ IF Len(requests[i].data) > 0
               THEN /\ fxSelectedYear' = getFullYear(latestDate(requests[i].data))
                    /\ selectedMonth' = getMonth(latestDate(requests[i].data))
               ELSE UNCHANGED <<fxSelectedYear, selectedMonth>>
            /\ UNCHANGED <<error, fetchFailure>>
    /\ loading' = FALSE
    /\ requests' = RemoveAt(requests, i)
    /\ UNCHANGED <<route, selectedYear, selectedCurrency, selectedFromCurrency,
                   selectedToCurrency, fxShowForm, fxForm, formLoading>>
    /\ UNCHANGED <<storeVars, dashVars, stockVars, acctVars>>

(* the year select, line 429 *)
FxSelectYear(y) ==
    /\ FxInteractive
    /\ ~fxShowForm
    /\ y \in availableYears(data)
    /\ fxSelectedYear' = y
    /\ UNCHANGED <<selectedMonth, selectedFromCurrency, selectedToCurrency, fxShowForm,
                   fxForm, formLoading>>
    /\ UNCHANGED <<pageVars, storeVars, dashVars, fxaVars, stockVars,
                   acctVars>>

(* handlePrevMonth, lines 259-264: the year and month it selects *)
PrevMonth(y, m) == IF m = 0 THEN <<y - 1, 11>> ELSE <<y, m - 1>>

NextMonthNoCarry(y, m) == IF m = 11 THEN <<y, 0>> ELSE <<y, m + 1>>

(* handleNextMonth, lines 268-273: the year and month it selects *)
NextMonth(y, m) == IF m = 11 THEN <<y + 1, 0>> ELSE <<y, m + 1>>

(* the arrows, lines 258-274; in the model they reach MaxNav months before *)
(* 2025 and MaxNav months after the current one                            *)
handlePrevMonth ==
    /\ FxInteractive
    /\ ~fxShowForm
    /\ fxSelectedYear * 12 + selectedMonth > 2025 * 12 - MaxNav
    /\ fxSelectedYear' = PrevMonth(fxSelectedYear, selectedMonth)[1]
    /\ selectedMonth' = PrevMonth(fxSelectedYear, selectedMonth)[2]
    /\ UNCHANGED <<selectedFromCurrency, selectedToCurrency, fxShowForm, fxForm,
                   formLoading>>
    /\ UNCHANGED <<pageVars, storeVars, dashVars, fxaVars, stockVars,
                   acctVars>>

handleNextMonth ==
    /\ FxInteractive
    /\ ~fxShowForm
    /\ fxSelectedYear * 12 + selectedMonth < Now + MaxNav
    /\ fxSelectedYear' = NextMonth(fxSelectedYear, selectedMonth)[1]
    /\ selectedMonth' = NextMonth(fxSelectedYear, selectedMonth)[2]
    /\ UNCHANGED <<selectedFromCurrency, selectedToCurrency, fxShowForm, fxForm,
                   formLoading>>
    /\ UNCHANGED <<pageVars, storeVars, dashVars, fxaVars, stockVars,
                   acctVars>>

(* the From select, lines 445-451 *)
FxSelectFrom(c) ==
    /\ FxInteractive
    /\ ~fxShowForm
    /\ c \in {"All"} \cup {data[i].from_currency : i \in 1..Len(data)}
    /\ selectedFromCurrency' = c
    /\ UNCHANGED <<fxSelectedYear, selectedMonth, selectedToCurrency, fxShowForm, fxForm,
                   formLoading>>
    /\ UNCHANGED <<pageVars, storeVars, dashVars, fxaVars, stockVars,
                   acctVars>>

(* the To select, lines 452-459 *)
FxSelectTo(c) ==
    /\ FxInteractive
    /\ ~fxShowForm
    /\ c \in {"All"} \cup {data[i].to_currency : i \in 1..Len(data)}
    /\ selectedToCurrency' = c
    /\ UNCHANGED <<fxSelectedYear, selectedMonth, selectedFromCurrency, fxShowForm, fxForm,
                   formLoading>>
    /\ UNCHANGED <<pageVars, storeVars, dashVars, fxaVars, stockVars,
                   acctVars>>

(* the Add FX / Cancel button, line 292 *)
FxToggleForm ==
    /\ FxInteractive
    /\ fxShowForm' = ~fxShowForm
    /\ UNCHANGED <<fxSelectedYear, selectedMonth, selectedFromCurrency,
                   selectedToCurrency, fxForm, formLoading>>
    /\ UNCHANGED <<pageVars, storeVars, dashVars, fxaVars, stockVars,
                   acctVars>>

(* typing into the form, lines 312-401 *)
FxEditForm(choice) ==
    /\ FxInteractive
    /\ fxShowForm
    /\ fxForm' = choice
    /\ UNCHANGED <<fxSelectedYear, selectedMonth, selectedFromCurrency,
                   selectedToCurrency, fxShowForm, formLoading>>
    /\ UNCHANGED <<pageVars, storeVars, dashVars, fxaVars, stockVars,
                   acctVars>>

(* handleSave up to its await, lines 190-211: the browser submits the form *)
(* only when its required inputs hold a value                              *)
FxHandleSave ==
    /\ FxInteractive
    /\ fxShowForm
    /\ ~formLoading
    /\ FxFormComplete(fxForm)
    /\ Len(requests) < MaxInflight
    /\ Len(fxStore) + PendingRows + 1 <= MaxInserted
    /\ formLoading' = TRUE
    /\ requests' = Append(requests, Request("insert", "fxSave", <<FxPayload(fxForm)>>))
    /\ UNCHANGED <<fxSelectedYear, selectedMonth, selectedFromCurrency,
                   selectedToCurrency, fxShowForm, fxForm>>
    /\ UNCHANGED <<route, loading, error, fetchFailure, storeVars, dashVars, fxaVars,
                   stockVars, acctVars>>

(* handleSave after its insert, lines 213-228: fetchData() is called and   *)
(* not awaited, so the finally block runs in the same step                 *)
FxSaveReturn(i) ==
    /\ route = "fx"
    /\ Replied(i, "insert")
    /\ IF requests[i].error # Null
       THEN /\ requests' = RemoveAt(requests, i)
            /\ UNCHANGED <<fxShowForm, fxForm, loading>>
       ELSE /\ fxShowForm' = FALSE
            /\ fxForm' = FxResetForm
            /\ StartFetch(i, "fxSave")
    /\ formLoading' = FALSE
    /\ UNCHANGED <<fxSelectedYear, selectedMonth, selectedFromCurrency,
                   selectedToCurrency>>
    /\ UNCHANGED <<route, error, fetchFailure, storeVars, dashVars, fxaVars, stockVars,
                   acctVars>>

-----------------------------------------------------------------------------
(* AddTransaction and AccountDetails *)

AddInitialForm(prefill) ==
    [accountName |-> prefill, type |-> "IN", amount |-> Null, date |-> Some(Today),
     tag |-> "", note |-> ""]

(* what is chosen and typed: the amount as the text of the number input *)
AddChoices ==
    [accountName : {"", "Dime Invest"}, type : {"IN", "OUT"},
     amount : {"", "0", "70", "-70"}, date : {Some(Today)}, tag : {"", "salary"},
     note : {""}]

(* the onChange handlers; setAmount(Number(e.target.value) || '') *)
AddEdit(choice) ==
    /\ route = "add"
    /\ ~loading
    /\ addForm' = [choice EXCEPT
                      !.amount = IF Number(choice.amount) = 0 THEN Null
                                 ELSE Some(Number(choice.amount))]
    /\ UNCHANGED <<pathname, detailAssets, summary>>
    /\ UNCHANGED <<pageVars, storeVars, dashVars, fxaVars, stockVars, fxVars>>

AmountValidNoMin(amount) == amount # Null

(* the amount input's constraints: required, min="0.01" *)
AmountValid(amount) == amount # Null /\ Val(amount) * 100 >= 1

(* handleSubmit up to its await: the form submits only when its inputs are *)
(* valid, and the button is disabled while loading                         *)
AddHandleSubmit ==
    /\ route = "add"
    /\ ~loading
    /\ addForm.accountName # ""
    /\ AmountValid(addForm.amount)
    /\ addForm.date # Null
    /\ IF addForm.accountName = "" \/ addForm.amount \in {Null, Some(0)}
          \/ addForm.date = Null
       THEN UNCHANGED <<loading, requests>>
       ELSE /\ loading' = TRUE
            /\ requests' = Append(requests,
                  Request("insert", "submit",
                          <<[account_name |-> addForm.accountName,
                             type |-> addForm.type,
                             amount |-> Val(addForm.amount),
                             date |-> Val(addForm.date),
                             tag |-> IF addForm.tag = "" THEN Null ELSE Some(addForm.tag),
                             note |-> IF addForm.note = "" THEN Null
                                      ELSE Some(addForm.note)]>>))
    /\ UNCHANGED <<route, error, fetchFailure, storeVars, dashVars, fxaVars, stockVars,
                   fxVars, acctVars>>

(* the mount of a page navigated to: its state as constructed, its fetch issued *)
Mount(page) ==
    /\ route' = page
    /\ loading' = TRUE
    /\ requests' = <<Request("select", "mount", Null)>>

(* handleSubmit after its insert: an alert, or navigate('/') *)
AddSubmitReturn(i) ==
    /\ route = "add"
    /\ Replied(i, "insert")
    /\ IF requests[i].error # Null
       THEN /\ loading' = FALSE
            /\ requests' = RemoveAt(requests, i)
            /\ UNCHANGED <<route, dashVars>>
       ELSE /\ Mount("dashboard")
            /\ assets' = <<>>
            /\ totalAssetValue' = 0
            /\ accounts' = <<>>
    /\ UNCHANGED <<error, fetchFailure, storeVars, fxaVars, stockVars, fxVars, acctVars>>

(* encodeURIComponent, and the decoding useParams does, over the account   *)
(* names of the model                                                      *)
encodeURIComponent(name) ==
    CASE name = "Random Bank" -> "Random%20Bank"
      [] name = "Dime Invest" -> "Dime%20Invest"
      [] OTHER -> name

decodeURIComponent(segment) ==
    CASE segment = "Random%20Bank" -> "Random Bank"
      [] segment = "Dime%20Invest" -> "Dime Invest"
      [] OTHER -> segment

(* Dashboard.handleAccountClick, and the mount of AccountDetails *)
handleAccountClick(accountName) ==
    /\ route = "dashboard"
    /\ ~loading
    /\ \E i \in 1..Len(accounts) : accounts[i].name = accountName
    /\ Mount("account")
    /\ pathname' = encodeURIComponent(accountName)
    /\ detailAssets' = <<>>
    /\ summary' = [total |-> 0, in |-> 0, out |-> 0]
    /\ UNCHANGED <<addForm, error, fetchFailure, storeVars, dashVars, fxaVars, stockVars,
                   fxVars>>

(* calculateSummary, lines 1476-1493 *)
calculateSummary(items) ==
    LET RECURSIVE Fold(_, _)
        Fold(rest, acc) ==
            IF rest = <<>> THEN acc
            ELSE Fold(Tail(rest),
                      IF Head(rest).type = "IN"
                      THEN [total |-> acc.total + Head(rest).amount,
                            in |-> acc.in + Head(rest).amount, out |-> acc.out]
                      ELSE [total |-> acc.total - Head(rest).amount,
                            in |-> acc.in, out |-> acc.out + Head(rest).amount])
    IN Fold(items, [total |-> 0, in |-> 0, out |-> 0])

(* fetchAccountAssets after its await, lines 1465-1473 *)
AccountFetchReturn(i) ==
    /\ route = "account"
    /\ Replied(i, "select")
    /\ IF requests[i].error # Null
       THEN /\ fetchFailure' = requests[i].error
            /\ UNCHANGED <<detailAssets, summary>>
       ELSE /\ detailAssets' = requests[i].data
            /\ summary' = calculateSummary(requests[i].data)
            /\ UNCHANGED fetchFailure
    /\ loading' = FALSE
    /\ requests' = RemoveAt(requests, i)
    /\ UNCHANGED <<route, error, addForm, pathname, storeVars, dashVars, fxaVars,
                   stockVars, fxVars>>

-----------------------------------------------------------------------------
(* The backing store *)

InsertByAt(sorted, e) ==
    LET before == {i \in 1..Len(sorted) : sorted[i].transaction_at >= e.transaction_at}
        k == IF before = {} THEN 0 ELSE CHOOSE i \in before : \A j \in before : j <= i
    IN SubSeq(sorted, 1, k) \o <<e>> \o SubSeq(sorted, k + 1, Len(sorted))

(* .order('transaction_at', { ascending: false }) *)
RECURSIVE OrderByAtDesc(_, _)
OrderByAtDesc(list, sorted) ==
    IF list = <<>> THEN sorted
    ELSE OrderByAtDesc(Tail(list), InsertByAt(sorted, Head(list)))

(* insert(row) into pantagon_usd *)
FxStoreInsert(i) ==
    /\ route = "fx"
    /\ i \in 1..Len(requests)
    /\ requests[i].kind = "insert"
    /\ requests[i].state = "sent"
    /\ \E ok \in BOOLEAN :
        IF ok
        THEN /\ fxStore' = fxStore \o requests[i].arg
             /\ requests' = [requests EXCEPT ![i].state = "replied"]
        ELSE /\ requests' = [requests EXCEPT ![i].state = "replied",
                                             ![i].error = Some(StoreError)]
             /\ UNCHANGED fxStore
    /\ UNCHANGED <<route, loading, error, fetchFailure, assetStore, stockStore, nextId,
                   dashVars, fxaVars, stockVars, fxVars, acctVars>>

(* .order('transaction_date', { ascending: false }) *)
InsertByDate(sorted, e) ==
    LET before == {i \in 1..Len(sorted) : sorted[i].transaction_date >= e.transaction_date}
        k == IF before = {} THEN 0 ELSE CHOOSE i \in before : \A j \in before : j <= i
    IN SubSeq(sorted, 1, k) \o <<e>> \o SubSeq(sorted, k + 1, Len(sorted))

RECURSIVE OrderByDateDesc(_, _)
OrderByDateDesc(list, sorted) ==
    IF list = <<>> THEN sorted
    ELSE OrderByDateDesc(Tail(list), InsertByDate(sorted, Head(list)))

Table ==
    CASE route = "dashboard" -> assetStore
      [] route = "fxAnalytics" -> fxStore
      [] route = "fx" -> OrderByAtDesc(fxStore, <<>>)
      [] route = "account" ->
            SelectSeq(assetStore,
                      LAMBDA r : r.account_name = decodeURIComponent(pathname))
      [] OTHER -> OrderByDateDesc(stockStore, <<>>)

(* a select is answered with the table as it is then, or with an error *)
StoreSelect(i) ==
    /\ i \in 1..Len(requests)
    /\ requests[i].kind = "select"
    /\ requests[i].state = "sent"
    /\ \E ok \in BOOLEAN :
        requests' = [requests EXCEPT
                        ![i].state = "replied",
                        ![i].error = IF ok THEN Null ELSE Some(StoreError),
                        ![i].data = IF ok THEN Table ELSE <<>>]
    /\ UNCHANGED <<route, loading, error, fetchFailure, storeVars,
                   dashVars, fxaVars, fxVars, stockVars, acctVars>>

(* an insert appends its rows, each under a fresh id, or fails as a whole *)
StoreInsert(i) ==
    /\ i \in 1..Len(requests)
    /\ requests[i].kind = "insert"
    /\ requests[i].state = "sent"
    /\ \E ok \in BOOLEAN :
        IF ok
        THEN /\ stockStore' = stockStore \o
                    [k \in 1..Len(requests[i].arg) |->
                        [id |-> nextId + k - 1] @@ requests[i].arg[k]]
             /\ nextId' = nextId + Len(requests[i].arg)
             /\ requests' = [requests EXCEPT ![i].state = "replied"]
        ELSE /\ requests' = [requests EXCEPT ![i].state = "replied",
                                             ![i].error = Some(StoreError)]
             /\ UNCHANGED <<stockStore, nextId>>
    /\ UNCHANGED <<route, loading, error, fetchFailure, assetStore, fxStore,
                   dashVars, fxaVars, fxVars, stockVars, acctVars>>

(* insert([row]) into pantagon_assets *)
AssetStoreInsert(i) ==
    /\ route = "add"
    /\ i \in 1..Len(requests)
    /\ requests[i].kind = "insert"
    /\ requests[i].state = "sent"
    /\ \E ok \in BOOLEAN :
        IF ok
        THEN /\ assetStore' = assetStore \o requests[i].arg
             /\ requests' = [requests EXCEPT ![i].state = "replied"]
        ELSE /\ requests' = [requests EXCEPT ![i].state = "replied",
                                             ![i].error = Some(StoreError)]
             /\ UNCHANGED assetStore
    /\ UNCHANGED <<route, loading, error, fetchFailure, fxStore, stockStore, nextId,
                   dashVars, fxaVars, stockVars, fxVars, acctVars>>

StoreDeleteUpTo(i) ==
    /\ i \in 1..Len(requests)
    /\ requests[i].kind = "delete"
    /\ requests[i].state = "sent"
    /\ \E ok \in BOOLEAN :
        IF ok
        THEN /\ stockStore' = SelectSeq(stockStore, LAMBDA r : r.id > Val(requests[i].arg))
             /\ requests' = [requests EXCEPT ![i].state = "replied"]
        ELSE /\ requests' = [requests EXCEPT ![i].state = "replied",
                                             ![i].error = Some(StoreError)]
             /\ UNCHANGED stockStore
    /\ UNCHANGED <<route, loading, error, fetchFailure, assetStore, fxStore, nextId,
                   dashVars, fxaVars, fxVars, stockVars, acctVars>>

(* delete().eq('id', id) *)
StoreDelete(i) ==
    /\ i \in 1..Len(requests)
    /\ requests[i].kind = "delete"
    /\ requests[i].state = "sent"
    /\ \E ok \in BOOLEAN :
        IF ok
        THEN /\ stockStore' = SelectSeq(stockStore, LAMBDA r : r.id # Val(requests[i].arg))
             /\ requests' = [requests EXCEPT ![i].state = "replied"]
        ELSE /\ requests' = [requests EXCEPT ![i].state = "replied",
                                             ![i].error = Some(StoreError)]
             /\ UNCHANGED stockStore
    /\ UNCHANGED <<route, loading, error, fetchFailure, assetStore, fxStore, nextId,
                   dashVars, fxaVars, fxVars, stockVars, acctVars>>

-----------------------------------------------------------------------------
(* Initial states: the page has been constructed and its mount effect has  *)
(* issued the fetch                                                        *)

PageInit ==
    /\ requests = <<Request("select", "mount", Null)>>
    /\ loading = TRUE
    /\ error = Null
    /\ fetchFailure = Null
    /\ assets = <<>>
    /\ totalAssetValue = 0
    /\ accounts = <<>>
    /\ data = <<>>
    /\ selectedYear = "All"
    /\ selectedCurrency = "USD"
    /\ fxSelectedYear = getFullYear(Now)
    /\ selectedMonth = getMonth(Now)
    /\ selectedFromCurrency = "All"
    /\ selectedToCurrency = "All"
    /\ fxShowForm = FALSE
    /\ fxForm = FxInitialForm
    /\ formLoading = FALSE
    /\ addForm = AddInitialForm("")
    /\ pathname = ""
    /\ detailAssets = <<>>
    /\ summary = [total |-> 0, in |-> 0, out |-> 0]
    /\ transactions = <<>>
    /\ showForm = FALSE
    /\ form = INITIAL_FORM
    /\ saving = FALSE
    /\ saveError = Null
    /\ jsonInput = JsonEmpty
    /\ jsonError = Null
    /\ batchPreview = Null
    /\ batchSaving = FALSE
    /\ batchError = Null
    /\ deleteId = Null
    /\ typed = ""
    /\ entered = {}

InitDashboard ==
    /\ route = "dashboard"
    /\ assetStore \in SeqsUpTo(AssetRecords, MaxAssets)
    /\ fxStore = <<>>
    /\ stockStore = <<>>
    /\ nextId = 1
    /\ PageInit

InitFxa ==
    /\ route = "fxAnalytics"
    /\ assetStore = <<>>
    /\ fxStore \in SeqsUpTo(FxRecords, MaxFx)
    /\ stockStore = <<>>
    /\ nextId = 1
    /\ PageInit

(* AddTransaction as constructed, the account name given by the location *)
(* state or not; it fetches nothing                                        *)
InitAdd ==
    /\ route = "add"
    /\ assetStore \in SeqsUpTo(AssetRecords, 1)
    /\ fxStore = <<>>
    /\ stockStore = <<>>
    /\ nextId = 1
    /\ requests = <<>>
    /\ loading = FALSE
    /\ error = Null
    /\ fetchFailure = Null
    /\ assets = <<>>
    /\ totalAssetValue = 0
    /\ accounts = <<>>
    /\ data = <<>>
    /\ selectedYear = "All"
    /\ selectedCurrency = "USD"
    /\ fxSelectedYear = getFullYear(Now)
    /\ selectedMonth = getMonth(Now)
    /\ selectedFromCurrency = "All"
    /\ selectedToCurrency = "All"
    /\ fxShowForm = FALSE
    /\ fxForm = FxInitialForm
    /\ formLoading = FALSE
    /\ addForm \in {AddInitialForm(""), AddInitialForm("Dime Invest")}
    /\ pathname = ""
    /\ detailAssets = <<>>
    /\ summary = [total |-> 0, in |-> 0, out |-> 0]
    /\ transactions = <<>>
    /\ showForm = FALSE
    /\ form = INITIAL_FORM
    /\ saving = FALSE
    /\ saveError = Null
    /\ jsonInput = JsonEmpty
    /\ jsonError = Null
    /\ batchPreview = Null
    /\ batchSaving = FALSE
    /\ batchError = Null
    /\ deleteId = Null
    /\ typed = ""
    /\ entered = {}

(* the FX page over rows the store already holds *)
InitFx ==
    /\ route = "fx"
    /\ assetStore = <<>>
    /\ fxStore \in SeqsUpTo(FxPageRecords, MaxFx)
    /\ stockStore = <<>>
    /\ nextId = 1
    /\ PageInit

(* the FX page over an empty table *)
InitFxEntry ==
    /\ route = "fx"
    /\ assetStore = <<>>
    /\ fxStore = <<>>
    /\ stockStore = <<>>
    /\ nextId = 1
    /\ PageInit

InitStock ==
    /\ route = "stock"
    /\ assetStore = <<>>
    /\ fxStore = <<>>
    /\ stockStore = <<>>
    /\ nextId = 1
    /\ PageInit

(* rows the store may already hold, whoever wrote them *)
Trade(id, side, symbol, date, shares, total, price, stock) ==
    [id |-> id, side |-> side, transaction_date |-> date, symbol |-> symbol,
     shares |-> Rat(shares, 1), total_amount |-> total, executed_price |-> price,
     commission |-> Null, vat |-> Null, fee |-> Null, sec_fee |-> Null,
     taf_fee |-> Null, input_amount_usd |-> Null, input_shares |-> Null,
     stock_amount |-> stock, currency |-> "USD"]

StoredTrades(id) ==
    { Trade(id, "INIT", "AAPL", 1, 10, 0, 50, 500),
      Trade(id, "BUY", "AAPL", 2, 3, 310, 100, 300),
      Trade(id, "SELL", "AAPL", 3, 5, 600, 120, 605),
      Trade(id, "SELL", "AAPL", 3, 12, 200, 17, 204),
      Trade(id, "BUY", "MSFT", 2, 4, 100, 25, 100),
      Trade(id, "SELL", "MSFT", 1, 9, 90, 10, 90),
      [Trade(id, "SELL", "MSFT", 3, 6, 0, 1, 6)
          EXCEPT !.commission = Some(6), !.input_shares = Some(6)],
      Trade(id, "INIT", "", 1, 2, 0, 20, 40) }

InitSummary ==
    /\ route = "stock"
    /\ assetStore = <<>>
    /\ fxStore = <<>>
    /\ \E s \in SeqsUpTo(StoredTrades(0), MaxTrades) :
          /\ stockStore = [i \in 1..Len(s) |-> [s[i] EXCEPT !.id = i]]
          /\ nextId = Len(s) + 1
    /\ PageInit

(* the stock page over a table of trades that are about to be deleted *)
InitDelete ==
    /\ route = "stock"
    /\ assetStore = <<>>
    /\ fxStore = <<>>
    /\ \E n \in 0..MaxTrades :
          /\ stockStore = [i \in 1..n |->
                              IF i % 2 = 1
                              THEN Trade(i, "BUY", "AAPL", 2, 3, 310, 100, 300)
                              ELSE Trade(i, "SELL", "MSFT", 1, 9, 90, 10, 90)]
          /\ nextId = n + 1
    /\ PageInit

NextDashboard ==
    \/ \E i \in 1..Len(requests) : StoreSelect(i)
    \/ \E i \in 1..Len(requests) : DashboardFetchReturn(i)

NextFxa ==
    \/ \E i \in 1..Len(requests) : StoreSelect(i)
    \/ \E i \in 1..Len(requests) : FxaFetchReturn(i)
    \/ \E y \in {"All", "2025", "2026", "2027"} : FxaSelectYear(y)
    \/ \E c \in {"USD", "EUR"} : FxaSelectCurrency(c)

(* the stock page over rows the store already holds: the fetch alone *)
NextSummary ==
    \/ \E i \in 1..Len(requests) : StoreSelect(i)
    \/ \E i \in 1..Len(requests) : StockFetchReturn(i)

(* the stock page from an empty table: trade entry by the form and by import *)
NextEntry ==
    \/ \E i \in 1..Len(requests) : StoreSelect(i)
    \/ \E i \in 1..Len(requests) : StoreInsert(i)
    \/ \E i \in 1..Len(requests) : StockFetchReturn(i)
    \/ \E i \in 1..Len(requests) : SaveReturn(i)
    \/ \E i \in 1..Len(requests) : BatchReturn(i)
    \/ ToggleForm
    \/ \E choice \in FormChoices : EditForm(choice)
    \/ HandleSave
    \/ \E choice \in JsonChoices : EditJson(choice)
    \/ ApplyJson
    \/ CancelBatch
    \/ HandleBatchSave

(* the stock page from an empty table: entry by the form alone, complete   *)
(* and incomplete forms                                                    *)
NextForm ==
    \/ \E i \in 1..Len(requests) : StoreSelect(i)
    \/ \E i \in 1..Len(requests) : StoreInsert(i)
    \/ \E i \in 1..Len(requests) : StockFetchReturn(i)
    \/ \E i \in 1..Len(requests) : SaveReturn(i)
    \/ ToggleForm
    \/ \E choice \in FormChoices \cup IncompleteForms : EditForm(choice)
    \/ HandleSave

(* the stock page from an empty table: the structured-text import alone *)
NextImport ==
    \/ \E i \in 1..Len(requests) : StoreSelect(i)
    \/ \E i \in 1..Len(requests) : StoreInsert(i)
    \/ \E i \in 1..Len(requests) : StockFetchReturn(i)
    \/ \E i \in 1..Len(requests) : BatchReturn(i)
    \/ ToggleForm
    \/ \E choice \in ImportChoices : EditJson(choice)
    \/ ApplyJson
    \/ CancelBatch
    \/ HandleBatchSave

(* the stock page from an empty table: the same trade entered by the form *)
(* and by the import                                                       *)
NextPayload ==
    \/ \E i \in 1..Len(requests) : StoreSelect(i)
    \/ \E i \in 1..Len(requests) : StoreInsert(i)
    \/ \E i \in 1..Len(requests) : StockFetchReturn(i)
    \/ \E i \in 1..Len(requests) : SaveReturn(i)
    \/ \E i \in 1..Len(requests) : BatchReturn(i)
    \/ ToggleForm
    \/ \E in \in PayloadInputs : EditForm(PayloadForm(in))
    \/ HandleSave
    \/ \E in \in PayloadInputs : EditJson(JsonArray(<<PayloadItem(in)>>))
    \/ ApplyJson
    \/ CancelBatch
    \/ HandleBatchSave

(* the FX page: its fetch, the month arrows and the three selects *)
NextFx ==
    \/ \E i \in 1..Len(requests) : StoreSelect(i)
    \/ \E i \in 1..Len(requests) : FxFetchReturn(i)
    \/ \E y \in {2025, 2026} : FxSelectYear(y)
    \/ handlePrevMonth
    \/ handleNextMonth
    \/ \E c \in {"All", "THB", "USD"} : FxSelectFrom(c)
    \/ \E c \in {"All", "THB", "USD", "EUR"} : FxSelectTo(c)

(* the FX page from an empty table: the form and its save *)
NextFxEntry ==
    \/ \E i \in 1..Len(requests) : StoreSelect(i)
    \/ \E i \in 1..Len(requests) : FxStoreInsert(i)
    \/ \E i \in 1..Len(requests) : FxFetchReturn(i)
    \/ \E i \in 1..Len(requests) : FxSaveReturn(i)
    \/ FxToggleForm
    \/ \E choice \in FxFormChoices : FxEditForm(choice)
    \/ FxHandleSave

(* the two FX views and their filters *)
NextFilters ==
    \/ \E i \in 1..Len(requests) : StoreSelect(i)
    \/ \E i \in 1..Len(requests) : FxaFetchReturn(i)
    \/ \E y \in {"All", "2025", "2026", "2027"} : FxaSelectYear(y)
    \/ \E c \in {"USD", "EUR"} : FxaSelectCurrency(c)
    \/ \E i \in 1..Len(requests) : FxFetchReturn(i)
    \/ \E y \in {2025, 2026} : FxSelectYear(y)
    \/ handlePrevMonth
    \/ handleNextMonth
    \/ \E c \in {"All", "THB", "USD"} : FxSelectFrom(c)
    \/ \E c \in {"All", "THB", "USD", "EUR"} : FxSelectTo(c)

(* AddTransaction, and the Dashboard it navigates to once the row is stored *)
NextAdd ==
    \/ \E choice \in AddChoices : AddEdit(choice)
    \/ AddHandleSubmit
    \/ \E i \in 1..Len(requests) : AssetStoreInsert(i)
    \/ \E i \in 1..Len(requests) : AddSubmitReturn(i)
    \/ \E i \in 1..Len(requests) : StoreSelect(i)
    \/ \E i \in 1..Len(requests) : DashboardFetchReturn(i)

(* the Dashboard, and the AccountDetails page an account row leads to *)
NextAccount ==
    \/ \E i \in 1..Len(requests) : StoreSelect(i)
    \/ \E i \in 1..Len(requests) : DashboardFetchReturn(i)
    \/ \E name \in {"Random Bank", "Dime Invest", "Unassigned"} : handleAccountClick(name)
    \/ \E i \in 1..Len(requests) : AccountFetchReturn(i)

(* the stock page over rows the store already holds: deleting them *)
NextDelete ==
    \/ \E i \in 1..Len(requests) : StoreSelect(i)
    \/ \E i \in 1..Len(requests) : StoreDelete(i)
    \/ \E i \in 1..Len(requests) : StockFetchReturn(i)
    \/ \E i \in 1..Len(requests) : DeleteReturn(i)
    \/ \E id \in 1..MaxTrades : AskDelete(id)
    \/ CancelDelete
    \/ HandleDelete

(* the stock page with saves and deletes under way at the same time *)
NextRace ==
    \/ \E i \in 1..Len(requests) : StoreSelect(i)
    \/ \E i \in 1..Len(requests) : StoreInsert(i)
    \/ \E i \in 1..Len(requests) : StoreDelete(i)
    \/ \E i \in 1..Len(requests) : StockFetchReturn(i)
    \/ \E i \in 1..Len(requests) : SaveReturn(i)
    \/ \E i \in 1..Len(requests) : DeleteReturn(i)
    \/ ToggleForm
    \/ \E choice \in FormChoices : EditForm(choice)
    \/ HandleSave
    \/ \E id \in 1..MaxTrades + MaxInserted : AskDelete(id)
    \/ CancelDelete
    \/ HandleDelete

(* every page over its table: the fetch of each page and the FX filters *)
Init == InitDashboard \/ InitFxa \/ InitSummary

Next ==
    \/ \E i \in 1..Len(requests) : StoreSelect(i)
    \/ \E i \in 1..Len(requests) : DashboardFetchReturn(i)
    \/ \E i \in 1..Len(requests) : FxaFetchReturn(i)
    \/ \E i \in 1..Len(requests) : StockFetchReturn(i)
    \/ \E y \in {"All", "2025", "2026", "2027"} : FxaSelectYear(y)
    \/ \E c \in {"USD", "EUR"} : FxaSelectCurrency(c)

SpecDashboard == InitDashboard /\ [][NextDashboard]_vars

SpecFxa == InitFxa /\ [][NextFxa]_vars

SpecSummary == InitSummary /\ [][NextSummary]_vars

SpecEntry == InitStock /\ [][NextEntry]_vars

SpecForm == InitStock /\ [][NextForm]_vars

SpecImport == InitStock /\ [][NextImport]_vars

SpecAdd == InitAdd /\ [][NextAdd]_vars

SpecAccount == InitDashboard /\ [][NextAccount]_vars

SpecPayload == InitStock /\ [][NextPayload]_vars

SpecRace == InitDelete /\ [][NextRace]_vars

SpecDelete == InitDelete /\ [][NextDelete]_vars

SpecFx == InitFx /\ [][NextFx]_vars

SpecFxEntry == InitFxEntry /\ [][NextFxEntry]_vars

SpecFilters == (InitFxa \/ InitFx) /\ [][NextFilters]_vars

Spec == Init /\ [][Next]_vars

(* the four views that fetch, the stock page refetching after its deletes *)
NextFetch ==
    \/ \E i \in 1..Len(requests) : StoreSelect(i)
    \/ \E i \in 1..Len(requests) : StoreDelete(i)
    \/ \E i \in 1..Len(requests) : DashboardFetchReturn(i)
    \/ \E i \in 1..Len(requests) : FxaFetchReturn(i)
    \/ \E i \in 1..Len(requests) : FxFetchReturn(i)
    \/ \E i \in 1..Len(requests) : StockFetchReturn(i)
    \/ \E i \in 1..Len(requests) : DeleteReturn(i)
    \/ \E id \in 1..MaxTrades : AskDelete(id)
    \/ CancelDelete
    \/ HandleDelete

(* each of the four views as mounted, over a table of its own *)
InitFetch ==
    \/ /\ InitDelete
       /\ Len(stockStore) <= MaxFetched
    \/ /\ route \in {"dashboard", "fxAnalytics", "fx"}
       /\ assetStore \in IF route = "dashboard" THEN SeqsUpTo(AssetRecords, 1) ELSE {<<>>}
       /\ fxStore \in IF route = "fxAnalytics" THEN SeqsUpTo(FxRecords, 1)
                      ELSE IF route = "fx" THEN SeqsUpTo(FxPageRecords, 1)
                      ELSE {<<>>}
       /\ stockStore = <<>>
       /\ nextId = 1
       /\ PageInit

(* the store answers a call sent to it and the continuation of an await   *)
(* runs once its call has been answered: while any of these steps is      *)
(* possible one of them is taken; what the user does is under no          *)
(* obligation                                                             *)
SystemStep ==
    \/ \E i \in 1..Len(requests) : StoreSelect(i)
    \/ \E i \in 1..Len(requests) : StoreDelete(i)
    \/ \E i \in 1..Len(requests) : DashboardFetchReturn(i)
    \/ \E i \in 1..Len(requests) : FxaFetchReturn(i)
    \/ \E i \in 1..Len(requests) : FxFetchReturn(i)
    \/ \E i \in 1..Len(requests) : StockFetchReturn(i)
    \/ \E i \in 1..Len(requests) : DeleteReturn(i)

SpecFetch == InitFetch /\ [][NextFetch]_vars /\ WF_vars(SystemStep)

-----------------------------------------------------------------------------
(* Properties *)

SignedSum(items) ==
    SumSeq([i \in 1..Len(items) |->
              IF items[i].type = "IN" THEN items[i].amount ELSE 0 - items[i].amount])

BalanceSum(list) == SumSeq([i \in 1..Len(list) |-> list[i].balance])

(* C1: the dashboard's grand total is the sum of the signed amounts of the *)
(* records given to calculateAssetView (+amount for IN, -amount            *)
(* otherwise), and the per-account balances add up to that grand total.    *)
C1_BalanceTotals ==
    route = "dashboard" =>
        /\ totalAssetValue = SignedSum(assets)
        /\ BalanceSum(accounts) = totalAssetValue

C1_Witness ==
    /\ route = "dashboard"
    /\ ~loading
    /\ Len(assets) = 3
    /\ Len(accounts) = 2
    /\ \E i \in 1..Len(assets) : assets[i].type = "OUT" /\ assets[i].amount > 0
    /\ totalAssetValue = 50

(* C2, as claimed: every account whose name holds a known-institution      *)
(* substring is listed before every account that holds none, whatever the  *)
(* balances, and accounts of equal rank are in descending balance order.   *)
C2_KnownInstitutionsFirst ==
    route = "dashboard" =>
        \A i, j \in 1..Len(accounts) :
            LET ki == getAccountIcon(accounts[i].name) # Null
                kj == getAccountIcon(accounts[j].name) # Null
            IN /\ (ki /\ ~kj) => i < j
               /\ (ki = kj /\ i < j) => accounts[i].balance >= accounts[j].balance

(* C2, amended: the dashboard lists the accounts in descending balance     *)
(* order and nothing else decides the order; a known-institution name      *)
(* gives no precedence.                                                    *)
C2_DescendingBalance ==
    route = "dashboard" =>
        \A i, j \in 1..Len(accounts) :
            i < j => accounts[i].balance >= accounts[j].balance

C2_Witness ==
    /\ route = "dashboard"
    /\ ~loading
    /\ accounts = << [name |-> "Random Bank", balance |-> 100],
                     [name |-> "Dime Invest", balance |-> 50] >>

PageView ==
    CASE route = "dashboard" -> DashboardView
      [] route = "fxAnalytics" -> FxaView
      [] OTHER -> StockView

(* C4: a fetch failure is reported: once the fetch that failed is over,    *)
(* the page that issued it shows the error state with the store's message  *)
(* instead of an ordinary empty view.                                      *)
C4_FetchFailureReported ==
    (fetchFailure # Null /\ ~loading) =>
        /\ PageView = "error"
        /\ error = fetchFailure

(* C9: over an empty record set every aggregator gives zero totals and     *)
(* empty groupings: the dashboard total 0 and no accounts, the FX totals 0 *)
(* with average rate 0 (a number, no division by zero), the stock summary  *)
(* no groups with invested 0, sold 0 and Net P&L 0; and the fetch of an    *)
(* empty table ends in no error state.                                     *)
C9_EmptyRecordSet ==
    /\ (route = "dashboard" /\ assets = <<>>) =>
            /\ totalAssetValue = 0
            /\ accounts = <<>>
    /\ (route = "fxAnalytics" /\ data = <<>>) =>
            /\ analytics.totalThbIn = 0
            /\ analytics.totalThbOut = 0
            /\ analytics.totalForeignIn = 0
            /\ analytics.totalForeignOut = 0
            /\ analytics.count = 0
            /\ analytics.avgRate.n = 0
            /\ analytics.avgRate.d > 0
    /\ (route = "stock" /\ transactions = <<>>) =>
            /\ symbolSummaries = <<>>
            /\ overallBuyOf(transactions) = 0
            /\ overallSellOf(transactions) = 0
            /\ netPL.n = 0
            /\ netPL.d > 0
    /\ (Table = <<>> /\ fetchFailure = Null) => error = Null

C9_Witness ==
    /\ route = "fxAnalytics"
    /\ fxStore = <<>>
    /\ requests = <<>>
    /\ fetchFailure = Null
    /\ FxaView = "content"
    /\ data = <<>>
    /\ analytics.avgRate = [n |-> 0, d |-> 1]

DuplicateFiltered(d, year, currency) ==
    d \o SelectSeq(d, LAMBDA item : FxaMatches(item, year, currency))

(* C10: the weighted-average rate of the FX analytics page does not change *)
(* when every record of the filtered set is duplicated.                    *)
C10_ScaleInvariant ==
    route = "fxAnalytics" =>
        RatEq(FxaAnalytics(DuplicateFiltered(data, selectedYear, selectedCurrency),
                           selectedYear, selectedCurrency).avgRate,
              analytics.avgRate)

C10_Witness ==
    /\ route = "fxAnalytics"
    /\ FxaView = "content"
    /\ Cardinality(FxaFiltered(data, selectedYear, selectedCurrency)) = 2
    /\ Len(data) = 3
    /\ analytics.avgRate = [n |-> 106, d |-> 3]

(* what a pasted item lacks, read off the item itself *)
Incomplete(item) ==
    \/ item.side = ""
    \/ item.symbol = ""
    \/ item.executed_price = Null
    \/ item.transaction_date = Null
    \/ (item.side = "BUY" /\ item.input_amount_usd = Null)
    \/ (item.side = "SELL" /\ item.input_shares = Null)

HasInvalid(arr) == \E i \in 1..Len(arr) : Incomplete(arr[i])

BatchInserts == {i \in 1..Len(requests) :
                    requests[i].kind = "insert" /\ requests[i].origin = "batch"}

(* C3: an array with an invalid item (for example one without              *)
(* executed_price) is rejected as a whole: applying it sets no batch       *)
(* preview, issues no request and leaves the stored trades as they are;    *)
(* a preview never holds such an array, and every batch insert on its way  *)
(* carries the rows of an array without an invalid item, so no item of a   *)
(* rejected array is ever inserted.                                        *)
C3_BatchAllOrNothing ==
    /\ [](/\ (jsonInput.kind = "array" /\ HasInvalid(jsonInput.value))
                 => batchPreview = Null
          /\ batchPreview # Null => ~HasInvalid(Val(batchPreview))
          /\ \A i \in BatchInserts :
                \E c \in JsonChoices :
                    /\ c.kind = "array"
                    /\ ~HasInvalid(c.value)
                    /\ requests[i].arg = MapPayload(c.value))
    /\ [][(ApplyJson /\ jsonInput.kind = "array" /\ HasInvalid(jsonInput.value))
            => /\ batchPreview' = Null
               /\ jsonError' # Null
               /\ requests' = requests
               /\ stockStore' = stockStore
               /\ transactions' = transactions]_vars

C3_Witness ==
    /\ jsonInput = JsonArray(<<ItemBuy, ItemNoPrice>>)
    /\ jsonError # Null
    /\ batchPreview = Null
    /\ Len(stockStore) = 1
    /\ transactions = stockStore
    /\ requests = <<>>

RecordFees(r) ==
    OrZero(r.commission) + OrZero(r.vat) + OrZero(r.fee)
      + OrZero(r.sec_fee) + OrZero(r.taf_fee)

InsertRows(origin) ==
    UNION {{requests[i].arg[k] : k \in 1..Len(requests[i].arg)} :
              i \in {j \in 1..Len(requests) :
                        requests[j].kind = "insert" /\ requests[j].origin = origin}}

(* the trades built by the form or by the import: those of every insert on *)
(* its way and, the table having started empty, those stored               *)
BuiltRows ==
    InsertRows("save") \cup InsertRows("batch")
      \cup {[f \in DOMAIN stockStore[i] \ {"id"} |-> stockStore[i][f]] :
               i \in 1..Len(stockStore)}

(* C5: every BUY trade built by the form or by the import has              *)
(* stock_amount = input_amount_usd - (commission + vat + fee + sec_fee +   *)
(* taf_fee), shares = stock_amount / executed_price and                    *)
(* total_amount = input_amount_usd.                                        *)
C5_BuyDerivation ==
    \A r \in BuiltRows :
        r.side = "BUY" =>
            /\ r.input_amount_usd # Null
            /\ r.executed_price > 0
            /\ r.stock_amount = Val(r.input_amount_usd) - RecordFees(r)
            /\ r.shares.n * r.executed_price = r.stock_amount * r.shares.d
            /\ r.shares.d > 0
            /\ r.total_amount = Val(r.input_amount_usd)

C5_Example(r) ==
    /\ r.side = "BUY"
    /\ r.input_amount_usd = Some(1000)
    /\ RecordFees(r) = 10
    /\ r.executed_price = 100
    /\ r.stock_amount = 990
    /\ r.shares.n * 10 = 99 * r.shares.d
    /\ r.total_amount = 1000

C5_Witness ==
    /\ \E r \in InsertRows("save") : C5_Example(r)
    /\ \E r \in InsertRows("batch") : C5_Example(r)

(* C6: every SELL trade built by the form or by the import has             *)
(* shares = input_shares, stock_amount = shares * executed_price and       *)
(* total_amount = stock_amount - (commission + vat + fee + sec_fee +       *)
(* taf_fee).                                                               *)
C6_SellDerivation ==
    \A r \in BuiltRows :
        r.side = "SELL" =>
            /\ r.input_shares # Null
            /\ r.shares.n = Val(r.input_shares) * r.shares.d
            /\ r.shares.d > 0
            /\ r.stock_amount = Val(r.input_shares) * r.executed_price
            /\ r.total_amount = r.stock_amount - RecordFees(r)

C6_Example(r) ==
    /\ r.side = "SELL"
    /\ r.input_shares = Some(5)
    /\ r.executed_price = 100
    /\ RecordFees(r) = 2
    /\ r.stock_amount = 500
    /\ r.total_amount = 498

C6_Witness ==
    /\ \E r \in InsertRows("save") : C6_Example(r)
    /\ \E r \in InsertRows("batch") : C6_Example(r)

SidesOf(txs, sym, sides) ==
    {i \in 1..Len(txs) : txs[i].symbol = sym /\ txs[i].side \in sides}

(* invested_amount: the stock_amount of the INIT rows and the total_amount *)
(* of the BUY rows of a symbol                                             *)
Invested(txs, sym) ==
    SumOver(txs, SidesOf(txs, sym, {"INIT"}), "stock_amount")
      + SumOver(txs, SidesOf(txs, sym, {"BUY"}), "total_amount")

Proceeds(txs, sym) == SumOver(txs, SidesOf(txs, sym, {"SELL"}), "total_amount")

RECURSIVE SharesOver(_, _)
SharesOver(txs, idx) ==
    IF idx = {} THEN Rat(0, 1)
    ELSE LET i == CHOOSE x \in idx : TRUE
         IN RatAdd(txs[i].shares, SharesOver(txs, idx \ {i}))

NetShares(txs, sym) ==
    RatSub(SharesOver(txs, SidesOf(txs, sym, {"BUY", "INIT"})),
           SharesOver(txs, SidesOf(txs, sym, {"SELL"})))

(* realized = sell_proceeds - invested_amount * min(1, ratio), times 1:    *)
(* invested * min(1, |proceeds| / invested) is min(invested, |proceeds|)   *)
(* for a positive invested amount and 0 for none                           *)
Realized(txs, sym) ==
    IF SidesOf(txs, sym, {"SELL"}) = {} THEN 0
    ELSE IF RatLess(NetShares(txs, sym), Rat(0, 1))
    THEN Proceeds(txs, sym) - Invested(txs, sym)
    ELSE IF Abs(Proceeds(txs, sym)) < Invested(txs, sym)
    THEN Proceeds(txs, sym) - Abs(Proceeds(txs, sym))
    ELSE Proceeds(txs, sym) - Invested(txs, sym)

RECURSIVE RealizedOver(_, _)
RealizedOver(txs, syms) ==
    IF syms = {} THEN 0
    ELSE LET sym == CHOOSE x \in syms : TRUE
         IN Realized(txs, sym) + RealizedOver(txs, syms \ {sym})

SymbolsOf(txs) == {txs[i].symbol : i \in 1..Len(txs)}

(* C7: the Net P&L shown is the sum over the symbols of the realized       *)
(* value, which is sell_proceeds - invested_amount * min(1, ratio) for     *)
(* every symbol with a SELL (ratio = |sell_proceeds| / invested_amount     *)
(* while the net shares are not negative, 1 when they are) and nothing     *)
(* for a symbol without a SELL.                                            *)
C7_RealizedPL ==
    route = "stock" =>
        RatEq(netPL, Rat(RealizedOver(transactions, SymbolsOf(transactions)), 1))

(* C8: the per-symbol summary is case-normalised: every group of trades    *)
(* entered through the form or the import is named in upper case, and no   *)
(* two groups differ only by letter case.                                  *)
C8_CaseNormalisedGroups ==
    route = "stock" =>
        /\ \A i \in 1..Len(symbolSummaries) :
              symbolSummaries[i].symbol = ToUpperCase(symbolSummaries[i].symbol)
        /\ \A i, j \in 1..Len(symbolSummaries) :
              ToUpperCase(symbolSummaries[i].symbol) = ToUpperCase(symbolSummaries[j].symbol)
                  => i = j

C8_Witness ==
    /\ route = "stock"
    /\ {" aapl", "AAPL"} \subseteq entered
    /\ Len(transactions) = 2
    /\ Len(symbolSummaries) = 1
    /\ symbolSummaries[1].symbol = "AAPL"
    /\ symbolSummaries[1].txCount = 2

(* the stored symbol of the trades a group collects *)
RawSymbol(group) == IF group = "UNKNOWN" THEN "" ELSE group

GroupOf(sym) == IF sym = "" THEN "UNKNOWN" ELSE sym

(* C11: per symbol group the summary holds invested = sum of BUY           *)
(* total_amount + sum of INIT stock_amount, net shares = BUY and INIT      *)
(* shares - SELL shares, proceeds = sum of SELL total_amount; every trade  *)
(* has its group and the transaction counts add up to the number of trades *)
C11_GroupSums ==
    route = "stock" =>
        /\ \A i \in 1..Len(symbolSummaries) :
              LET s == symbolSummaries[i]
                  sym == RawSymbol(s.symbol)
              IN /\ s.totalBuyAmount = Invested(transactions, sym)
                 /\ RatEq(s.totalShares, NetShares(transactions, sym))
                 /\ s.totalSellAmount = Proceeds(transactions, sym)
                 /\ s.txCount = Cardinality(SidesOf(transactions, sym,
                                                    {"BUY", "INIT", "SELL"}))
        /\ \A k \in 1..Len(transactions) :
              \E i \in 1..Len(symbolSummaries) :
                  symbolSummaries[i].symbol = GroupOf(transactions[k].symbol)
        /\ SumSeq([i \in 1..Len(symbolSummaries) |-> symbolSummaries[i].txCount])
              = Len(transactions)

C11_Witness ==
    /\ route = "stock"
    /\ Len(transactions) = 3
    /\ Len(symbolSummaries) = 1
    /\ symbolSummaries[1].symbol = "AAPL"
    /\ symbolSummaries[1].totalBuyAmount = 810
    /\ symbolSummaries[1].totalSellAmount = 600
    /\ symbolSummaries[1].totalShares = Rat(8, 1)
    /\ symbolSummaries[1].txCount = 3

(* C12: every group with a BUY or INIT trade, the UNKNOWN group of the     *)
(* trades without a symbol included, shows as average buy price the        *)
(* unweighted mean of executed_price over the group's BUY and INIT trades  *)
C12_AverageBuyPrice ==
    route = "stock" =>
        \A i \in 1..Len(symbolSummaries) :
            LET s == symbolSummaries[i]
                buys == SidesOf(transactions, RawSymbol(s.symbol), {"BUY", "INIT"})
            IN buys # {} =>
                  RatEq(s.avgBuyPrice,
                        Rat(SumOver(transactions, buys, "executed_price"),
                            Cardinality(buys)))

AccountSum(items, name) ==
    SignedSum(SelectSeq(items, LAMBDA r :
        (IF r.account_name = "" THEN "Unassigned" ELSE r.account_name) = name))

(* C18: a record with an empty account name is grouped under "Unassigned": *)
(* the balance of "Unassigned" is the signed sum of the records without a  *)
(* name (and of any named "Unassigned"), no account has the empty name,    *)
(* and every other account's balance is the signed sum of its own records  *)
C18_Unassigned ==
    route = "dashboard" =>
        /\ \A i \in 1..Len(accounts) :
              /\ accounts[i].name # ""
              /\ accounts[i].balance = AccountSum(assets, accounts[i].name)
        /\ (\E k \in 1..Len(assets) : assets[k].account_name = "")
              => \E i \in 1..Len(accounts) : accounts[i].name = "Unassigned"

C18_Witness ==
    /\ route = "dashboard"
    /\ Len(assets) = 3
    /\ \E k \in 1..Len(assets) :
          /\ assets[k].account_name = ""
          /\ assets[k].type = "OUT"
          /\ assets[k].amount = 50
    /\ \E i, j \in 1..Len(accounts) :
          /\ accounts[i] = [name |-> "Unassigned", balance |-> 50]
          /\ accounts[j] = [name |-> "Random Bank", balance |-> 100]

(* C20: the two entry-mode fields exclude each other: a record built by    *)
(* the form or by the import has input_amount_usd only when its side is    *)
(* BUY, input_shares only when its side is SELL, and never both.           *)
C20_EntryModeExclusive ==
    \A r \in BuiltRows :
        /\ r.input_amount_usd # Null => r.side = "BUY"
        /\ r.input_shares # Null => r.side = "SELL"
        /\ r.input_amount_usd = Null \/ r.input_shares = Null

C20_Witness ==
    /\ \E r \in InsertRows("save") :
          r.side = "BUY" /\ r.input_amount_usd = Some(1000) /\ r.input_shares = Null
    /\ \E r \in InsertRows("batch") :
          r.side = "SELL" /\ r.input_shares = Some(5) /\ r.input_amount_usd = Null

(* what a form lacks, read off the form itself *)
FormLacks(f) ==
    \/ f.symbol \in {"", " "}
    \/ f.executed_price = ""
    \/ f.transaction_date = Null
    \/ (f.side = "BUY" /\ f.input_amount_usd = "")
    \/ (f.side = "SELL" /\ f.input_shares = "")

(* C14: handleSave on a form without symbol, executed price or date, or    *)
(* without the input of its side (amount for BUY, shares for SELL) issues  *)
(* no insert, sets an inline error message and leaves the form, the listed *)
(* trades and the stored trades as they are.                               *)
C14_SaveValidationBlocks ==
    [][(HandleSave /\ FormLacks(form))
          => /\ requests' = requests
             /\ saveError' # Null
             /\ saving' = FALSE
             /\ form' = form
             /\ transactions' = transactions
             /\ stockStore' = stockStore]_vars

C14_Witness ==
    /\ route = "stock"
    /\ form = Form("SELL", "AAPL", Some(1), "100", "1000", "", "")
    /\ saveError = Some("Shares are required for SELL.")
    /\ requests = <<>>
    /\ ~saving
    /\ Len(transactions) = 1
    /\ transactions = stockStore

FirstInvalid(arr) ==
    CHOOSE i \in 1..Len(arr) :
        Incomplete(arr[i]) /\ \A j \in 1..(i - 1) : ~Incomplete(arr[j])

(* the BUY or SELL derivation of a row from the item it was built from *)
MappedBySide(item, r) ==
    /\ r.side = item.side
    /\ r.executed_price = Val(item.executed_price)
    /\ item.side = "BUY" =>
          /\ r.input_amount_usd = item.input_amount_usd
          /\ r.total_amount = Val(item.input_amount_usd)
          /\ r.stock_amount = Val(item.input_amount_usd) - RecordFees(r)
          /\ r.shares.n * r.executed_price = r.stock_amount * r.shares.d
    /\ item.side = "SELL" =>
          /\ r.input_shares = item.input_shares
          /\ r.shares.n = Val(item.input_shares) * r.shares.d
          /\ r.stock_amount = Val(item.input_shares) * r.executed_price
          /\ r.total_amount = r.stock_amount - RecordFees(r)

(* C13: for an array, a batch preview is produced only if every item has   *)
(* side, symbol, executed_price and transaction_date, and input_amount_usd *)
(* when BUY or input_shares when SELL; otherwise applying it stops with a  *)
(* message that names the position of the first offending item; and on     *)
(* import every previewed item is mapped by the derivation of its side.    *)
C13_ArrayValidation ==
    /\ [](batchPreview # Null => ~HasInvalid(Val(batchPreview)))
    /\ [][(ApplyJson /\ jsonInput.kind = "array" /\ HasInvalid(jsonInput.value))
            => /\ batchPreview' = Null
               /\ jsonError' # Null
               /\ Val(jsonError')[1] = "Item"
               /\ Val(jsonError')[2] = FirstInvalid(jsonInput.value)]_vars
    /\ [][HandleBatchSave
            => LET rows == requests'[Len(requests')].arg
               IN /\ Len(rows) = Len(Val(batchPreview))
                  /\ \A k \in 1..Len(rows) :
                        MappedBySide(Val(batchPreview)[k], rows[k])]_vars

C13_Witness ==
    /\ jsonInput = JsonArray(<<ItemBuy, ItemSellNoShares>>)
    /\ batchPreview = Null
    /\ jsonError = Some(<<"Item", 2, "SELL requires input_shares">>)
    /\ \E i \in BatchInserts :
          requests[i].arg = <<buildPayload(ItemSell), buildPayload(ItemBuy)>>

FeeFields == {"commission", "vat", "fee", "sec_fee", "taf_fee"}

Magnitude(x) == IF x < 0 THEN 0 - x ELSE x

MagnitudeSum(item) ==
    LET m(o) == IF o = Null THEN 0 ELSE Magnitude(Val(o))
    IN m(item.commission) + m(item.vat) + m(item.fee) + m(item.sec_fee) + m(item.taf_fee)

(* C19: whatever the signs of the fees pasted, every fee component of a    *)
(* record built by the batch import is absent or the non-negative          *)
(* magnitude of the item's fee, the record's stock_amount (BUY) and        *)
(* total_amount (SELL) are derived with the sum of those magnitudes, and   *)
(* every fee field a single pasted object fills into the form is the       *)
(* non-negative magnitude of the object's fee.                             *)
C19_FeeMagnitudes ==
    /\ [][HandleBatchSave
            => LET rows == requests'[Len(requests')].arg
               IN \A k \in 1..Len(rows) :
                     LET item == Val(batchPreview)[k]
                         r == rows[k]
                     IN /\ \A f \in FeeFields :
                              /\ r[f] # Null =>
                                    /\ Val(r[f]) >= 0
                                    /\ item[f] # Null
                                    /\ Val(r[f]) = Magnitude(Val(item[f]))
                              /\ r[f] = Null => item[f] \in {Null, Some(0)}
                        /\ item.side = "BUY" =>
                              r.stock_amount
                                 = Val(item.input_amount_usd) - MagnitudeSum(item)
                        /\ item.side = "SELL" =>
                              r.total_amount
                                 = Val(item.input_shares) * Val(item.executed_price)
                                      - MagnitudeSum(item)]_vars
    /\ [][(ApplyJson /\ jsonInput.kind = "object")
            => \A f \in FeeFields :
                  LET o == jsonInput.value[1][f]
                  IN o # Null =>
                        /\ form'[f] # ""
                        /\ ParseFloat(form'[f]) >= 0
                        /\ ParseFloat(form'[f]) = Magnitude(Val(o))]_vars

C19_Witness ==
    /\ form.commission = "10"
    /\ batchPreview = Some(<<ItemBuy, ItemSell>>)
    /\ ItemBuy.commission = Some(-10)
    /\ \E i \in BatchInserts :
          /\ requests[i].arg[1].commission = Some(10)
          /\ requests[i].arg[1].stock_amount = 990

(* the row of the insert a step has just issued *)
IssuedRow(reqs) == reqs[Len(reqs)].arg[1]

RateIs(rate, n, d) == d # 0 /\ rate.n * d = n * rate.d

(* C15 as stated: a conversion created with the rate left empty stores     *)
(* thb_amount / foreign_amount as its exchange_rate, and one created with  *)
(* a rate stores that rate.                                                *)
C15_RateDefault ==
    [][FxHandleSave
         => LET r == IssuedRow(requests')
            IN IF fxForm.exchange_rate = ""
               THEN RateIs(r.exchange_rate, r.thb_amount, r.foreign_amount)
               ELSE RateIs(r.exchange_rate, Number(fxForm.exchange_rate), 1)]_vars

(* C15, amended: a conversion created with the rate left empty or zero and *)
(* both amounts positive stores thb_amount / foreign_amount; with the rate *)
(* left empty or zero and an amount that is not positive it stores 0; and  *)
(* one created with a non-zero rate stores that rate.                      *)
C15_RateDefaultPositive ==
    [][FxHandleSave
         => LET r == IssuedRow(requests')
                given == Number(fxForm.exchange_rate)
            IN /\ r.thb_amount = Number(fxForm.thb_amount)
               /\ r.foreign_amount = Number(fxForm.foreign_amount)
               /\ (given = 0 /\ r.thb_amount > 0 /\ r.foreign_amount > 0)
                     => RateIs(r.exchange_rate, r.thb_amount, r.foreign_amount)
               /\ (given = 0 /\ ~(r.thb_amount > 0 /\ r.foreign_amount > 0))
                     => RateIs(r.exchange_rate, 0, 1)
               /\ given # 0 => RateIs(r.exchange_rate, given, 1)]_vars

C15_Witness ==
    /\ route = "fx"
    /\ fxForm = FxForm(Now, "USD", "FCD", "70", "2", "")
    /\ formLoading
    /\ Len(requests) = 1
    /\ requests[1].kind = "insert"
    /\ requests[1].arg[1].exchange_rate = Rat(70, 2)
    /\ fxStore = <<FxRow("USD", "FCD", 70, 2, Rat(36, 1), Now)>>

(* the predicates a view has switched on, and what each asks of a record *)
ActivePredicates ==
    IF route = "fx"
    THEN {"year", "month"}
           \cup (IF selectedFromCurrency = "All" THEN {} ELSE {"source"})
           \cup (IF selectedToCurrency = "All" THEN {} ELSE {"destination"})
    ELSE (IF selectedYear = "All" THEN {} ELSE {"year"})
           \cup (IF selectedCurrency = "All" THEN {} ELSE {"currency"})

Satisfies(item, p) ==
    IF route = "fx"
    THEN CASE p = "year" -> item.transaction_at \div 12 = fxSelectedYear
           [] p = "month" -> item.transaction_at % 12 = selectedMonth
           [] p = "source" -> item.from_currency = selectedFromCurrency
           [] p = "destination" -> item.to_currency = selectedToCurrency
    ELSE CASE p = "year" -> YearString(item.transaction_at \div 12) = selectedYear
           [] p = "currency" -> selectedCurrency \in {item.from_currency, item.to_currency}

FilteredNow ==
    IF route = "fx"
    THEN FxFiltered(data, fxSelectedYear, selectedMonth, selectedFromCurrency,
                    selectedToCurrency)
    ELSE FxaFiltered(data, selectedYear, selectedCurrency)

(* C16: on the FX page and on the FX analytics page a record is in the     *)
(* filtered set if and only if it satisfies every active predicate; a      *)
(* filter set to "All" is inactive and excludes nothing.                   *)
C16_PureConjunction ==
    route \in {"fx", "fxAnalytics"} =>
        \A i \in 1..Len(data) :
            i \in FilteredNow <=> \A p \in ActivePredicates : Satisfies(data[i], p)

C16_Witness ==
    /\ route = "fx"
    /\ Len(data) = 3
    /\ \A i \in 1..3 : data[i].transaction_at = 2026 * 12 + 5
    /\ fxSelectedYear = 2026 /\ selectedMonth = 5
    /\ selectedFromCurrency = "THB" /\ selectedToCurrency = "USD"
    /\ \E i, j, k \in 1..3 :
          /\ FilteredNow = {i}
          /\ data[j].from_currency = "THB" /\ data[j].to_currency # "USD"
          /\ data[k].from_currency # "THB"

(* the latest transaction_at of a record set *)
MostRecentAt(d) ==
    CHOOSE t \in {d[i].transaction_at : i \in 1..Len(d)} :
        \A i \in 1..Len(d) : d[i].transaction_at <= t

(* C17: when a fetch of the FX page completes without error, the selected  *)
(* year and month are those of the most recent transaction_at if records   *)
(* came back, and those of the current date if none did.                   *)
C17_DefaultPeriod ==
    [][\A i \in 1..Len(requests) :
          (FxFetchReturn(i) /\ requests[i].error = Null)
             => IF data' # <<>>
                THEN /\ fxSelectedYear' = MostRecentAt(data') \div 12
                     /\ selectedMonth' = MostRecentAt(data') % 12
                ELSE /\ fxSelectedYear' = Now \div 12
                     /\ selectedMonth' = Now % 12]_vars

C17_Witness ==
    /\ route = "fx" /\ ~loading /\ error = Null
    /\ Len(fxStore) = 2
    /\ fxStore[1].transaction_at = 2025 * 12 + 11
    /\ fxStore[2].transaction_at = 2026 * 12 + 5
    /\ data = <<fxStore[2], fxStore[1]>>
    /\ fxSelectedYear = 2026 /\ selectedMonth = 5

(* C29: on the FX page the selected month is always in 0..11; the previous *)
(* arrow at month 0 selects month 11 of the year before and the next arrow *)
(* at month 11 selects month 0 of the year after; and from the period an   *)
(* arrow has just selected, the opposite arrow selects the period the      *)
(* first one left.                                                         *)
C29_MonthNavigation ==
    /\ [](route = "fx" => selectedMonth \in 0..11)
    /\ [][handlePrevMonth
            => /\ selectedMonth = 0
                    => selectedMonth' = 11 /\ fxSelectedYear' = fxSelectedYear - 1
               /\ selectedMonth # 0
                    => selectedMonth' = selectedMonth - 1 /\ fxSelectedYear' = fxSelectedYear
               /\ NextMonth(fxSelectedYear', selectedMonth')
                      = <<fxSelectedYear, selectedMonth>>]_vars
    /\ [][handleNextMonth
            => /\ selectedMonth = 11
                    => selectedMonth' = 0 /\ fxSelectedYear' = fxSelectedYear + 1
               /\ selectedMonth # 11
                    => selectedMonth' = selectedMonth + 1 /\ fxSelectedYear' = fxSelectedYear
               /\ PrevMonth(fxSelectedYear', selectedMonth')
                      = <<fxSelectedYear, selectedMonth>>]_vars

C29_Witness ==
    /\ route = "fx" /\ ~loading /\ error = Null
    /\ data # <<>>
    /\ \A i \in 1..Len(data) : data[i].transaction_at = 2026 * 12 + 5
    /\ fxSelectedYear = 2025 /\ selectedMonth = 11

(* the records of the filtered set of the mounted FX view that pass a test *)
ThbOver(Test(_)) ==
    SumOver(data, {i \in FilteredNow : Test(data[i])}, "thb_amount")

ThbFlows ==
    IF route = "fx"
    THEN FxListAnalytics(data, fxSelectedYear, selectedMonth, selectedFromCurrency,
                         selectedToCurrency)
    ELSE analytics

(* C22 as stated: in both FX views the THB inflow is the sum of thb_amount *)
(* of exactly the filtered records whose destination is THB, the outflow   *)
(* that of exactly the filtered records whose source is THB.               *)
C22_ThbFlows ==
    route \in {"fx", "fxAnalytics"} =>
        /\ ThbFlows.totalThbIn = ThbOver(LAMBDA r : r.to_currency = "THB")
        /\ ThbFlows.totalThbOut = ThbOver(LAMBDA r : r.from_currency = "THB")

(* C22, amended: in the FX list view the inflow is the sum of thb_amount   *)
(* of the filtered records whose destination is THB and the outflow that   *)
(* of the filtered records whose source is THB and whose destination is    *)
(* not; in the FX analytics view the inflow also counts the filtered       *)
(* records whose source is the selected currency, and the outflow those    *)
(* whose destination is the selected currency.                             *)
C22_ThbFlowsBySelection ==
    /\ route = "fx" =>
          /\ ThbFlows.totalThbIn = ThbOver(LAMBDA r : r.to_currency = "THB")
          /\ ThbFlows.totalThbOut
                = ThbOver(LAMBDA r : r.from_currency = "THB" /\ r.to_currency # "THB")
    /\ route = "fxAnalytics" =>
          /\ ThbFlows.totalThbIn
                = ThbOver(LAMBDA r : r.to_currency = "THB"
                                       \/ r.from_currency = selectedCurrency)
          /\ ThbFlows.totalThbOut
                = ThbOver(LAMBDA r : r.from_currency = "THB"
                                       \/ r.to_currency = selectedCurrency)

C22_Witness ==
    /\ route = "fxAnalytics" /\ ~loading /\ error = Null
    /\ selectedYear = "All" /\ selectedCurrency = "USD"
    /\ Len(data) = 3
    /\ \E i, j, k \in 1..3 :
          /\ data[i].from_currency = "USD" /\ data[i].to_currency = "EUR"
          /\ data[j].from_currency = "USD" /\ data[j].to_currency = "THB"
          /\ data[k].from_currency = "THB" /\ data[k].to_currency = "USD"
    /\ analytics.totalThbIn = 90 + 36
    /\ analytics.totalThbOut = 70

(* C21: every record the add-transaction submit handler inserts has a      *)
(* non-negative amount, the magnitude entered, and carries the direction   *)
(* chosen (IN or OUT) in its type alone; no stored record has a negative   *)
(* amount.                                                                 *)
C21_UnsignedAmount ==
    /\ [](\A k \in 1..Len(assetStore) : assetStore[k].amount >= 0)
    /\ [][(AddHandleSubmit /\ requests' # requests)
            => LET r == IssuedRow(requests')
               IN /\ r.amount >= 0
                  /\ r.amount = Magnitude(Val(addForm.amount))
                  /\ r.type = addForm.type
                  /\ r.type \in {"IN", "OUT"}]_vars

C21_Witness ==
    /\ route = "dashboard" /\ ~loading
    /\ Len(assetStore) = 1
    /\ assetStore[1].account_name = "Dime Invest"
    /\ assetStore[1].type = "OUT" /\ assetStore[1].amount = 70
    /\ addForm.amount = Some(70) /\ addForm.type = "OUT"
    /\ totalAssetValue = 0 - 70

(* the account-details view has computed its summary from a fetch that succeeded *)
DetailsShown == route = "account" /\ ~loading /\ fetchFailure = Null

(* C26: for every account name the dashboard lists, "Unassigned" included, *)
(* the Total Balance the account-details view computes after the click on  *)
(* that account equals the balance the dashboard showed for it, and the    *)
(* details total is the sum of the IN amounts less the sum of the OUT      *)
(* amounts.                                                                *)
C26_DetailsMatchDashboard ==
    DetailsShown =>
        /\ \A i \in 1..Len(accounts) :
              encodeURIComponent(accounts[i].name) = pathname
                 => summary.total = accounts[i].balance
        /\ summary.total = summary.in - summary.out

Records(txs) == {txs[k] : k \in 1..Len(txs)}

(* C23: a delete the store accepts removes from the store the record with  *)
(* that id and no other; when handleDelete learns of it the pending-delete *)
(* id is cleared, and the list its refetch brings lacks that id and holds  *)
(* every record the store still has; a delete the store refuses leaves the *)
(* list, the pending-delete id and the page's error state as they were.    *)
C23_DeleteOne ==
    /\ [][\A i \in 1..Len(requests) :
            (StoreDelete(i) /\ requests'[i].error = Null)
               => /\ Records(stockStore')
                        = {r \in Records(stockStore) : r.id # Val(requests[i].arg)}
                  /\ Len(stockStore') >= Len(stockStore) - 1]_vars
    /\ [][\A i \in 1..Len(requests) :
            DeleteReturn(i)
               => IF requests[i].error = Null
                  THEN deleteId' = Null
                  ELSE /\ transactions' = transactions
                       /\ deleteId' = deleteId
                       /\ error' = error
                       /\ loading' = loading]_vars
    /\ [][\A i \in 1..Len(requests) :
            (StockFetchReturn(i) /\ requests[i].origin = "delete"
                /\ requests[i].error = Null)
               => /\ Val(requests[i].arg) \notin Ids(transactions')
                  /\ Records(stockStore) \subseteq Records(transactions')]_vars

C23_Witness ==
    /\ route = "stock" /\ ~loading /\ error = Null
    /\ requests = <<>>
    /\ deleteId = Null
    /\ Len(stockStore) = 2
    /\ Ids(stockStore) = {1, 3}
    /\ transactions = OrderByDateDesc(stockStore, <<>>)

(* C24: in the stock view, once every save, batch save, delete and fetch   *)
(* in flight has come back and the view shows no error, the list the view  *)
(* holds is the table's contents in the order of the query, whatever the   *)
(* order in which overlapping refetches came back.                         *)
C24_ListIsStore ==
    (/\ route = "stock"
     /\ requests = <<>>
     /\ error = Null /\ fetchFailure = Null
     /\ saveError = Null /\ batchError = Null)
        => transactions = OrderByDateDesc(stockStore, <<>>)

RealizedShown == SumSeq([i \in 1..Len(symbolSummaries) |-> realized(symbolSummaries[i])])

(* C25: the Net P&L of the stock overview is the sum, over the symbols, of *)
(* the P&L that the symbol list and the symbol detail view show for each   *)
(* symbol, whatever the trades are.                                        *)
C25_NetIsSumOfRealized ==
    (route = "stock" /\ ~loading /\ error = Null)
        => RatEq(netPL, Rat(RealizedShown, 1))

Flights(origin) == {i \in 1..Len(requests) : requests[i].origin = origin}

(* C27: while a save of the form is in flight, from its insert to the end  *)
(* of its refetch, no second save is under way, and the same for the batch *)
(* save: each confirmed submission has one insert; the saving flag is set  *)
(* exactly while the save is in flight and the batch flag exactly while    *)
(* the batch save is, so both are false once insert and refetch are over,  *)
(* failed or not.                                                          *)
C27_OneSaveAtATime ==
    [](route = "stock" =>
        /\ Cardinality(Flights("save")) <= 1
        /\ Cardinality(Flights("batch")) <= 1
        /\ saving <=> Flights("save") # {}
        /\ batchSaving <=> Flights("batch") # {})

C27_Witness ==
    /\ StockInteractive /\ showForm
    /\ saving /\ batchSaving
    /\ \E i \in Flights("save") : requests[i].kind = "insert"
    /\ \E i \in Flights("batch") : requests[i].kind = "insert"

(* C28: whenever a view is loading, it later is not: every fetch a view    *)
(* starts, on mount or as a refetch, ends with the loading flag false,     *)
(* whether the store answers with rows or with an error.                   *)
C28_LoadingEnds == loading ~> ~loading

C28_Witness ==
    /\ route = "stock" /\ ~loading
    /\ fetchFailure # Null
    /\ Len(stockStore) < MaxFetched /\ stockStore # <<>>

SameRecord(a, b) ==
    /\ a.shares = b.shares
    /\ a.total_amount = b.total_amount
    /\ a.stock_amount = b.stock_amount
    /\ a.commission = b.commission /\ a.vat = b.vat
    /\ a.fee = b.fee /\ a.sec_fee = b.sec_fee /\ a.taf_fee = b.taf_fee

(* C30: when the form and the import preview hold the same trade (side,    *)
(* symbol, date, executed price, entry amount and the same fees, none      *)
(* negative), the record handleSave builds from the form and the record    *)
(* buildPayload builds from the item have the same shares, total_amount,   *)
(* stock_amount and fee fields.                                            *)
C30_SameDerivation ==
    \A in \in PayloadInputs :
        (/\ route = "stock"
         /\ form = PayloadForm(in)
         /\ batchPreview = Some(<<PayloadItem(in)>>))
            => SameRecord(SavePayload(form), buildPayload(Val(batchPreview)[1]))

====
